---- MODULE Spec2Model ----
(***************************************************************************)
(* A model of the triple-store federation layer of owmeta-core:            *)
(*   - AggregateStore   (owmeta_core/agg_store.py)                          *)
(*   - ContextStore     (owmeta_core/context_store.py)                      *)
(*   - RDFContextStore  (owmeta_core/context_store.py)                      *)
(* One AggregateStore object: Spec (open and close), WSpec (the writes),   *)
(* QSpec (the queries), NsSpec (the namespace operations).                 *)
(* One ContextStore object with its RDFContextStore overlay: CSSpec.       *)
(* One RDFContextStore object over a store that changes: RSpec.            *)
(* One Installer writing to a bundles directory: ISpec.                    *)
(***************************************************************************)
EXTENDS Integers, Sequences, FiniteSets, TLC

VARIABLES
    stores,                  \* AggregateStore.__stores: the child stores, in order
    bound_ns,                \* AggregateStore.__bound_ns: prefix -> namespace
    supports_range_queries,  \* AggregateStore.supports_range_queries
    orphaned,                \* whether a child was dropped from __stores while still open
    last,                    \* the last call on the object and what it gave
    world,                   \* the contexts a ContextStore is built over
    cs,                      \* the fields of one ContextStore object
    rcs,                     \* the fields of one RDFContextStore object
    inst,                    \* the bundles directory an Installer writes to
    mappers                  \* the tables of the Mapper objects, by mapper name

aggVars == <<stores, bound_ns, supports_range_queries, orphaned>>
csVars  == <<world, cs>>
extVars == <<rcs, inst, mappers>>
vars    == <<stores, bound_ns, supports_range_queries, orphaned, last, world, cs,
             rcs, inst, mappers>>

None == "None"

(***************************************************************************)
(* Bounds                                                                  *)
(***************************************************************************)
\* the longest configuration handed to AggregateStore.open
MaxStores == 2
\* the longest configuration the namespace operations are exercised over
MaxNsStores == 3
\* the highest version a descriptor asks for
MaxVersion == 2

(***************************************************************************)
(* The child stores an AggregateStore is configured with.  A configuration *)
(* entry (store_key, store_conf) names a store class and what it holds;    *)
(* the entries below are the ones the model draws configurations from.     *)
(***************************************************************************)
Triples    == {"t1", "t2"}
Contexts   == {"c1", "c2"}
Prefixes   == {"", "p1", "p2", "p3"}
Namespaces == {"n1", "n2"}

StoreEntries == {"full", "clash", "blank", "flat", "stuck", "dead"}

\* the entries the namespace operations are exercised over
\* ("stuck" and "dead" differ from "full" only in how they open and close)
OpenableEntries == {"full", "clash", "blank", "flat"}

\* the entries open and close are exercised over
\* ("clash" differs from "stuck" only in what it holds)
LifecycleEntries == {"full", "blank", "flat", "stuck", "dead"}

\* the entries the queries are exercised over
QueryEntries == {"full", "clash", "blank"}

\* the entries the writes are exercised over
WriteEntries == {"full", "blank"}

\* the class attribute context_aware of the entry's store class
context_aware(e) == e # "flat"

\* the class attribute supports_range_queries: "True", "False" or "absent"
range_attr(e) ==
    CASE e = "full"  -> "True"
      [] e = "clash" -> "False"
      [] e = "blank" -> "absent"
      [] e = "flat"  -> "True"
      [] e = "stuck" -> "False"
      [] e = "dead"  -> "True"

\* whether the child's open() raises
open_raises(e) == e = "dead"

\* whether the child's close() raises
close_raises(e) == e = "stuck"

\* the quads the child holds once open, in its own iteration order
entry_quads(e) ==
    CASE e = "full"  -> << <<"t1", "c1">>, <<"t2", "c1">> >>
      [] e = "clash" -> << <<"t1", "c1">>, <<"t2", "c2">> >>
      [] e = "blank" -> << >>
      [] e = "flat"  -> << <<"t1", "c2">> >>
      [] e = "stuck" -> << <<"t2", "c2">> >>
      [] e = "dead"  -> << >>

\* the (prefix, namespace) bindings the child holds
entry_ns(e) ==
    CASE e = "full"  -> { <<"p1", "n1">> }
      [] e = "clash" -> { <<"p2", "n1">>, <<"p1", "n2">> }
      [] e = "blank" -> { }
      [] e = "flat"  -> { <<"", "n1">> }
      [] e = "stuck" -> { <<"p1", "n1">> }
      [] e = "dead"  -> { }

\* plugin.get(store_key, Store)(): a fresh, unopened child store
NewStore(e) ==
    [entry |-> e, quads |-> entry_quads(e), ns |-> entry_ns(e),
     open |-> FALSE, gotAddN |-> FALSE, gotCommit |-> FALSE]

(***************************************************************************)
(* What a child store answers (rdflib.store.Store interface)               *)
(***************************************************************************)
\* a triple pattern is None (the full wildcard) or one triple
Matches(t, pat) == pat = None \/ t = pat

InContext(c, context) == context = None \/ c = context

\* store.triples(triple, context=context)
ChildTriples(store, pat, context) ==
    SelectSeq(store.quads,
              LAMBDA q : Matches(q[1], pat) /\ InContext(q[2], context))

\* store.triples_choices(triple, context=context): the pattern offers a
\* set of alternatives
ChildTriplesChoices(store, choices, context) ==
    SelectSeq(store.quads,
              LAMBDA q : q[1] \in choices /\ InContext(q[2], context))

\* the sequence s without its repeated elements, first occurrences kept
RECURSIVE Dedup(_)
Dedup(s) ==
    IF s = <<>> THEN <<>>
    ELSE LET front == Dedup(SubSeq(s, 1, Len(s) - 1))
             x     == s[Len(s)]
         IN  IF \E k \in 1..Len(front) : front[k] = x THEN front
             ELSE Append(front, x)

\* store.contexts(triple): the contexts holding the triple (all if None)
ChildContexts(store, triple) ==
    LET qs == ChildTriples(store, triple, None)
    IN  Dedup([k \in 1..Len(qs) |-> qs[k][2]])

\* len(store): the number of statements the child holds
ChildLen(store) == Cardinality({store.quads[k][1] : k \in 1..Len(store.quads)})

\* store.prefix(namespace)
ChildPrefix(store, namespace) ==
    IF \E b \in store.ns : b[2] = namespace
    THEN (CHOOSE b \in store.ns : b[2] = namespace)[1]
    ELSE None

\* store.namespace(prefix)
ChildNamespace(store, prefix) ==
    IF \E b \in store.ns : b[1] = prefix
    THEN (CHOOSE b \in store.ns : b[1] = prefix)[2]
    ELSE None

\* Python truthiness of an optional string
Truthy(x) == x # None /\ x # ""

(***************************************************************************)
(* AggregateStore                                                          *)
(***************************************************************************)
\* the configurations of at most n entries drawn from the set S
Configurations(S, n) == UNION {[1..k -> S] : k \in 0..n}

\* __init__: no children, nothing bound
AggInit ==
    /\ stores = <<>>
    /\ bound_ns = [p \in {} |-> None]
    /\ supports_range_queries = FALSE
    /\ orphaned = FALSE

\* what the call left behind: its name, its argument, "ok" or the
\* exception it raised, and the value it returned or yielded
Call(op, arg, outcome, result) ==
    [op |-> op, arg |-> arg, outcome |-> outcome, result |-> result]

\* the loop of open(): create, open and append one child per entry, in
\* order; a child whose open() raises ends the loop with the children
\* opened so far left in __stores
RECURSIVE OpenLoop(_, _, _)
OpenLoop(configuration, i, acc) ==
    IF i > Len(configuration) THEN [stores |-> acc, raised |-> FALSE]
    ELSE IF open_raises(configuration[i]) THEN [stores |-> acc, raised |-> TRUE]
    ELSE OpenLoop(configuration, i + 1,
                  Append(acc, [NewStore(configuration[i]) EXCEPT !.open = TRUE]))

\* all(x.context_aware for x in self.__stores)
AllContextAware(ss) == \A k \in 1..Len(ss) : context_aware(ss[k].entry)

\* a variant of AllRangeQueries: a child without the attribute counts as true
AllRangeQueries_default_true(ss) ==
    \A k \in 1..Len(ss) : range_attr(ss[k].entry) # "False"

\* all(getattr(x, 'supports_range_queries', False) for x in self.__stores)
AllRangeQueries(ss) == \A k \in 1..Len(ss) : range_attr(ss[k].entry) = "True"

\* whether some child of ss is open
StillOpen(ss) == \E k \in 1..Len(ss) : ss[k].open

\* open(configuration) with a list or tuple
Open(configuration) ==
    LET r == OpenLoop(configuration, 1, <<>>)
    IN  /\ stores' = r.stores
        /\ orphaned' = (orphaned \/ StillOpen(stores))
        /\ UNCHANGED <<bound_ns, csVars, extVars>>
        /\ IF r.raised
           THEN /\ UNCHANGED supports_range_queries
                /\ last' = Call("open", configuration, "StoreOpenError", None)
           ELSE IF ~AllContextAware(r.stores)
           THEN /\ UNCHANGED supports_range_queries
                /\ last' = Call("open", configuration, "AssertionError", None)
           ELSE /\ supports_range_queries' = AllRangeQueries(r.stores)
                /\ last' = Call("open", configuration, "ok", None)

\* open(configuration) with anything that is no list or tuple
OpenNotList ==
    /\ last' = Call("open", None, "ok", "NO_STORE")
    /\ UNCHANGED <<aggVars, csVars, extVars>>

\* the loop of close(): close each child in order; a child whose close()
\* raises ends the loop
RECURSIVE CloseLoop(_, _)
CloseLoop(ss, i) ==
    IF i > Len(ss) THEN [stores |-> ss, raised |-> FALSE]
    ELSE IF close_raises(ss[i].entry) THEN [stores |-> ss, raised |-> TRUE]
    ELSE CloseLoop([ss EXCEPT ![i].open = FALSE], i + 1)

\* close()
Close ==
    LET r == CloseLoop(stores, 1)
    IN  /\ stores' = r.stores
        /\ last' = Call("close", None, IF r.raised THEN "StoreCloseError" ELSE "ok", None)
        /\ UNCHANGED <<bound_ns, supports_range_queries, orphaned, csVars, extVars>>

\* add, remove, add_graph, remove_graph, create, destroy, rollback
UnsupportedOps ==
    {"add", "remove", "add_graph", "remove_graph", "create", "destroy", "rollback"}

\* what addN(quads) does to a child store: the quad is stored once
ChildAddN(store, q) ==
    [store EXCEPT !.gotAddN = TRUE,
                  !.quads = IF \E k \in 1..Len(@) : @[k] = q THEN @ ELSE Append(@, q)]

\* what commit() does to a child store
ChildCommit(store) == [store EXCEPT !.gotCommit = TRUE]

\* a variant of Unsupported: the operation reaches the first child before
\* it is rejected
Unsupported_reaching_child(op) ==
    /\ op \in UnsupportedOps
    /\ stores' = IF stores = <<>> THEN stores
                 ELSE [stores EXCEPT ![1] = ChildAddN(@, <<"t2", "c2">>)]
    /\ last' = Call(op, None, "UnsupportedAggregateOperation", None)
    /\ UNCHANGED <<bound_ns, supports_range_queries, orphaned, csVars, extVars>>

\* any of the unsupported operations: raise, touch nothing
Unsupported(op) ==
    /\ op \in UnsupportedOps
    /\ last' = Call(op, None, "UnsupportedAggregateOperation", None)
    /\ UNCHANGED <<aggVars, csVars, extVars>>

\* a variant of ForwardTargets: every child receives the call
ForwardTargets_all(ss) == 1..Len(ss)

\* the children addN and commit are forwarded to: self.__stores[0]
ForwardTargets(ss) == {1}

\* the quads addN is called with
AddNQuads == { <<"t2", "c2">>, <<"t1", "c1">> }

\* addN(quads)
AddN(q) ==
    /\ q \in AddNQuads
    /\ IF stores = <<>>
       THEN /\ last' = Call("addN", q, "IndexError", None)
            /\ UNCHANGED stores
       ELSE /\ stores' = [k \in 1..Len(stores) |->
                            IF k \in ForwardTargets(stores)
                            THEN ChildAddN(stores[k], q) ELSE stores[k]]
            /\ last' = Call("addN", q, "ok", None)
    /\ UNCHANGED <<bound_ns, supports_range_queries, orphaned, csVars, extVars>>

\* commit()
Commit ==
    /\ IF stores = <<>>
       THEN /\ last' = Call("commit", None, "IndexError", None)
            /\ UNCHANGED stores
       ELSE /\ stores' = [k \in 1..Len(stores) |->
                            IF k \in ForwardTargets(stores)
                            THEN ChildCommit(stores[k]) ELSE stores[k]]
            /\ last' = Call("commit", None, "ok", None)
    /\ UNCHANGED <<bound_ns, supports_range_queries, orphaned, csVars, extVars>>

\* bind(prefix, namespace)
Bind(prefix, namespace) ==
    /\ bound_ns' = [p \in DOMAIN bound_ns \cup {prefix} |->
                      IF p = prefix THEN namespace ELSE bound_ns[p]]
    /\ last' = Call("bind", <<prefix, namespace>>, "ok", None)
    /\ UNCHANGED <<stores, supports_range_queries, orphaned, csVars, extVars>>

\* the (prefix, namespace) pairs bind is called with
BindPairs == { <<"p1", "n2">>, <<"p3", "n1">> }

\* the concatenation of the sequences of the sequence ss, in order
RECURSIVE Chain(_)
Chain(ss) == IF ss = <<>> THEN <<>> ELSE Head(ss) \o Chain(Tail(ss))

\* a variant of AggTriples: a result already yielded is not yielded again
AggTriples_deduplicated(ss, pat, context) ==
    Dedup(Chain([k \in 1..Len(ss) |-> ChildTriples(ss[k], pat, context)]))

\* triples(triple, context): each child's results, child after child
AggTriples(ss, pat, context) ==
    Chain([k \in 1..Len(ss) |-> ChildTriples(ss[k], pat, context)])

\* triples_choices(triple, context)
AggTriplesChoices(ss, choices, context) ==
    Chain([k \in 1..Len(ss) |-> ChildTriplesChoices(ss[k], choices, context)])

\* contexts(triple)
AggContexts(ss, triple) ==
    Chain([k \in 1..Len(ss) |-> ChildContexts(ss[k], triple)])

\* a variant of AggLen: a statement held by several children counts once
AggLen_distinct(ss) ==
    Cardinality(UNION {{ss[k].quads[j][1] : j \in 1..Len(ss[k].quads)} :
                          k \in 1..Len(ss)})

\* __len__: sum(len(store) for store in self.__stores)
RECURSIVE AggLen(_)
AggLen(ss) == IF ss = <<>> THEN 0 ELSE ChildLen(Head(ss)) + AggLen(Tail(ss))

\* the arguments the queries are called with ("c3" is held by no child)
PatternArgs == {None, "t1", "t2"}
ChoicesArgs == {{"t1"}, {"t1", "t2"}}
ContextArgs == {None, "c1", "c3"}

Queries == {"triples", "triples_choices", "contexts"}

TriplesOp(pat, context) ==
    /\ last' = Call("triples", <<pat, context>>, "ok",
                    AggTriples(stores, pat, context))
    /\ UNCHANGED <<aggVars, csVars, extVars>>

TriplesChoicesOp(choices, context) ==
    /\ last' = Call("triples_choices", <<choices, context>>, "ok",
                    AggTriplesChoices(stores, choices, context))
    /\ UNCHANGED <<aggVars, csVars, extVars>>

ContextsOp(triple) ==
    /\ last' = Call("contexts", <<triple>>, "ok", AggContexts(stores, triple))
    /\ UNCHANGED <<aggVars, csVars, extVars>>

LenOp ==
    /\ last' = Call("len", None, "ok", AggLen(stores))
    /\ UNCHANGED <<aggVars, csVars, extVars>>

\* the loop of prefix(namespace): ask each child in order; prefix is what
\* the previous child answered
RECURSIVE PrefixLoop(_, _, _, _)
PrefixLoop(ss, i, prefix, namespace) ==
    IF i > Len(ss) THEN [conflict |-> FALSE, value |-> prefix]
    ELSE LET aprefix == ChildPrefix(ss[i], namespace)
         IN  IF Truthy(aprefix) /\ Truthy(prefix) /\ aprefix # prefix
             THEN [conflict |-> TRUE, value |-> None]
             ELSE PrefixLoop(ss, i + 1, aprefix, namespace)

\* prefix(namespace)
PrefixOp(namespace) ==
    LET r == PrefixLoop(stores, 1, None, namespace)
    IN  /\ last' = Call("prefix", namespace,
                        IF r.conflict THEN "AggregatedStoresConflict" ELSE "ok",
                        r.value)
        /\ UNCHANGED <<aggVars, csVars, extVars>>

\* the loop of namespace(prefix)
RECURSIVE NamespaceLoop(_, _, _, _)
NamespaceLoop(ss, i, namespace, prefix) ==
    IF i > Len(ss) THEN [conflict |-> FALSE, value |-> namespace]
    ELSE LET anamespace == ChildNamespace(ss[i], prefix)
         IN  IF Truthy(anamespace) /\ Truthy(namespace) /\ anamespace # namespace
             THEN [conflict |-> TRUE, value |-> None]
             ELSE NamespaceLoop(ss, i + 1, anamespace, prefix)

\* self.__bound_ns.get(prefix)
BoundGet(prefix) == IF prefix \in DOMAIN bound_ns THEN bound_ns[prefix] ELSE None

\* namespace(prefix): the children first, the bound namespaces when the
\* loop ends with None
NamespaceOp(prefix) ==
    LET r == NamespaceLoop(stores, 1, None, prefix)
    IN  /\ last' = Call("namespace", prefix,
                        IF r.conflict THEN "AggregatedStoresConflict" ELSE "ok",
                        IF ~r.conflict /\ r.value = None
                        THEN BoundGet(prefix) ELSE r.value)
        /\ UNCHANGED <<aggVars, csVars, extVars>>

\* the arguments prefix and namespace are called with
NamespaceArgs == {"n1", "n2"}
PrefixArgs == {"p1", "p3"}

(***************************************************************************)
(* Specifications of one AggregateStore object.  Each exercises open       *)
(* together with one group of operations.                                  *)
(***************************************************************************)
NoContextStore ==
    /\ world = None
    /\ cs = None

NoRDFContextStore == rcs = None

NoInstaller == inst = None

\* no Mapper has been constructed
NoMapper == mappers = None

Init ==
    /\ AggInit
    /\ last = Call("__init__", None, "ok", None)
    /\ NoContextStore
    /\ NoRDFContextStore
    /\ NoInstaller
    /\ NoMapper

\* open and close
Next ==
    \/ \E configuration \in Configurations(LifecycleEntries, MaxStores) :
          Open(configuration)
    \/ OpenNotList
    \/ Close

Spec == Init /\ [][Next]_vars

\* the writes: the unsupported operations, addN, commit and bind
WNext ==
    \/ \E configuration \in Configurations(WriteEntries, MaxStores) :
          Open(configuration)
    \/ Close
    \/ \E b \in BindPairs : Bind(b[1], b[2])
    \/ \E op \in UnsupportedOps : Unsupported(op)
    \/ \E q \in AddNQuads : AddN(q)
    \/ Commit

WSpec == Init /\ [][WNext]_vars

\* the queries
QNext ==
    \/ \E configuration \in Configurations(QueryEntries, MaxStores) :
          Open(configuration)
    \/ \E q \in AddNQuads : AddN(q)
    \/ \E pat \in PatternArgs, context \in ContextArgs : TriplesOp(pat, context)
    \/ \E choices \in ChoicesArgs, context \in ContextArgs :
          TriplesChoicesOp(choices, context)
    \/ \E triple \in PatternArgs : ContextsOp(triple)
    \/ LenOp

QSpec == Init /\ [][QNext]_vars

\* the namespace operations
NsNext ==
    \/ \E configuration \in Configurations(OpenableEntries, MaxNsStores) :
          Open(configuration)
    \/ \E b \in BindPairs : Bind(b[1], b[2])
    \/ \E namespace \in NamespaceArgs : PrefixOp(namespace)
    \/ \E prefix \in PrefixArgs : NamespaceOp(prefix)

NsSpec == Init /\ [][NsNext]_vars

(***************************************************************************)
(* Properties of open and close (checked under Spec)                       *)
(***************************************************************************)
\* C6: open with a list configuration leaves one open child per entry, in
\* configuration order; it fails when some entry's store is not
\* context_aware; when it succeeds supports_range_queries is true exactly
\* when every child declares supports_range_queries true, a child without
\* the attribute counting as false.
C6_OpenChecksChildren ==
    (last.op = "open" /\ last.result # "NO_STORE") =>
        LET configuration == last.arg
        IN  /\ (\E k \in 1..Len(configuration) : ~context_aware(configuration[k]))
                  => last.outcome # "ok"
            /\ last.outcome = "ok" =>
                  /\ Len(stores) = Len(configuration)
                  /\ \A k \in 1..Len(stores) :
                        stores[k].entry = configuration[k] /\ stores[k].open
                  /\ supports_range_queries =
                        (\A k \in 1..Len(configuration) :
                            range_attr(configuration[k]) = "True")

\* C6 witness: a successful open of two children, one of which has no
\* supports_range_queries attribute, left supports_range_queries false
C6_Witness ==
    /\ last.op = "open" /\ last.outcome = "ok" /\ last.result # "NO_STORE"
    /\ Len(stores) = 2
    /\ stores[1].entry = "full" /\ stores[2].entry = "blank"
    /\ supports_range_queries = FALSE

\* C7 (as claimed): after close returns or raises, and after an open that
\* failed, no child store that was opened remains unclosed.
C7_EveryOpenedChildReleased ==
    (last.op = "close" \/ (last.op = "open" /\ last.outcome # "ok"))
        => (~StillOpen(stores) /\ ~orphaned)

(***************************************************************************)
(* Properties of the writes (checked under WSpec)                          *)
(***************************************************************************)
\* C1: every call of add, remove, add_graph, remove_graph, create, destroy
\* or rollback raises UnsupportedAggregateOperation and leaves the list of
\* children, every child's content and the bound namespaces as they were.
C1_UnsupportedRejected ==
    [][last'.op \in UnsupportedOps =>
          /\ last'.outcome = "UnsupportedAggregateOperation"
          /\ stores' = stores
          /\ bound_ns' = bound_ns]_vars

\* C1 witness: an unsupported operation was rejected on an opened store
\* that holds children and a bound namespace
C1_Witness ==
    /\ last.op = "remove_graph"
    /\ last.outcome = "UnsupportedAggregateOperation"
    /\ Len(stores) = 2
    /\ DOMAIN bound_ns # {}

\* C5: addN and commit reach the first child and no other: a child at
\* index >= 2 never receives either call and keeps the content it was
\* opened with, and a step of addN or commit leaves the child list (its
\* length, its entries, every child but the first) and the bound
\* namespaces as they were, the first child having received the call.
C5_ForwardedToFirstOnly ==
    /\ [](\A k \in 2..Len(stores) :
             /\ ~stores[k].gotAddN
             /\ ~stores[k].gotCommit
             /\ stores[k].quads = entry_quads(stores[k].entry))
    /\ [][last'.op \in {"addN", "commit"} =>
             /\ Len(stores') = Len(stores)
             /\ \A k \in 1..Len(stores) : stores'[k].entry = stores[k].entry
             /\ \A k \in 2..Len(stores) : stores'[k] = stores[k]
             /\ bound_ns' = bound_ns
             /\ (last'.op = "addN" /\ last'.outcome = "ok") =>
                   /\ stores'[1].gotAddN
                   /\ \E j \in 1..Len(stores'[1].quads) :
                         stores'[1].quads[j] = last'.arg
             /\ (last'.op = "commit" /\ last'.outcome = "ok") =>
                   stores'[1].gotCommit]_vars

\* C5 witness: addN stored a new quad in the first of two children
C5_Witness ==
    /\ last.op = "addN" /\ last.outcome = "ok"
    /\ Len(stores) = 2
    /\ stores[1].gotAddN
    /\ stores[1].quads # entry_quads(stores[1].entry)
    /\ DOMAIN bound_ns # {}

(***************************************************************************)
(* Properties of the queries (checked under QSpec)                         *)
(***************************************************************************)
\* what each child, in order, answers to the query the call made
ChildAnswers(call) ==
    [k \in 1..Len(stores) |->
        CASE call.op = "triples" ->
                 ChildTriples(stores[k], call.arg[1], call.arg[2])
          [] call.op = "triples_choices" ->
                 ChildTriplesChoices(stores[k], call.arg[1], call.arg[2])
          [] call.op = "contexts" ->
                 ChildContexts(stores[k], call.arg[1])]

\* the number of results of the children before child k
RECURSIVE ResultsBefore(_, _)
ResultsBefore(parts, k) ==
    IF k <= 1 THEN 0 ELSE ResultsBefore(parts, k - 1) + Len(parts[k - 1])

\* whether some child holds a statement in the context
Covered(context) ==
    \E k \in 1..Len(stores) : \E j \in 1..Len(stores[k].quads) :
        stores[k].quads[j][2] = context

\* C3: triples, triples_choices and contexts yield the results of child 1,
\* then those of child 2, and so on, every result at its place and nothing
\* else (none dropped, merged or deduplicated); with a context that no
\* child covers nothing is yielded; calling again with the same arguments
\* on unchanged children yields the same sequence.
C3_ConcatenationInOrder ==
    /\ [](last.op \in Queries =>
            LET parts == ChildAnswers(last)
            IN  /\ Len(last.result) = ResultsBefore(parts, Len(parts) + 1)
                /\ \A k \in 1..Len(parts) : \A j \in 1..Len(parts[k]) :
                      last.result[ResultsBefore(parts, k) + j] = parts[k][j]
                /\ (/\ last.op \in {"triples", "triples_choices"}
                    /\ last.arg[2] # None
                    /\ ~Covered(last.arg[2])) => last.result = <<>>)
    /\ [][(/\ last.op \in Queries
           /\ last'.op = last.op
           /\ last'.arg = last.arg
           /\ stores' = stores) => last'.result = last.result]_vars

\* C3 witness: the full wildcard over two children that hold a common
\* statement yielded it twice, once at each child's place
C3_Witness ==
    /\ last.op = "triples" /\ last.arg = <<None, None>>
    /\ Len(stores) = 2
    /\ Len(last.result) = 4
    /\ last.result[1] = last.result[3]
    /\ last.result[1] = <<"t1", "c1">>

\* the number of (child, statement) pairs with the statement held by the child
HeldPairs(ss) ==
    Cardinality({pr \in (1..Len(ss)) \X Triples :
                    \E j \in 1..Len(ss[pr[1]].quads) : ss[pr[1]].quads[j][1] = pr[2]})

\* C4: in every reachable state the length of the aggregate is the sum of
\* the lengths of its children, a statement held by k children counting k
\* times (0 without children), and that is what __len__ returns.
C4_LenIsSumOfChildren ==
    /\ AggLen(stores) = HeldPairs(stores)
    /\ last.op = "len" => last.result = HeldPairs(stores)

\* C4 witness: __len__ returned 4 for two children that hold 2 statements
\* each, one of them in common
C4_Witness ==
    /\ last.op = "len" /\ last.result = 4
    /\ Len(stores) = 2
    /\ \E j \in 1..Len(stores[2].quads) : stores[2].quads[j][1] = stores[1].quads[1][1]

(***************************************************************************)
(* Properties of the namespace operations (checked under NsSpec)           *)
(***************************************************************************)
\* whether two children answer differently, both non-empty
Disagree(Answer(_)) ==
    \E i, j \in 1..Len(stores) :
        /\ i < j
        /\ Truthy(Answer(stores[i])) /\ Truthy(Answer(stores[j]))
        /\ Answer(stores[i]) # Answer(stores[j])

\* C2 (as claimed): whenever two children, adjacent or not, give different
\* non-empty mappings for the key, prefix and namespace fail with
\* AggregatedStoresConflict.
C2_DisagreementIsConflict ==
    /\ (last.op = "prefix" /\ Disagree(LAMBDA st : ChildPrefix(st, last.arg)))
          => last.outcome = "AggregatedStoresConflict"
    /\ (last.op = "namespace" /\ Disagree(LAMBDA st : ChildNamespace(st, last.arg)))
          => last.outcome = "AggregatedStoresConflict"

\* C8 (as claimed): prefix returns only what a child answers (or None),
\* never a bound mapping; namespace returns the bound namespace only when
\* no child has a mapping for the prefix, so when some child has one and
\* the bound namespace is returned, it is what a child answers.
C8_BoundNamespaceOnlyFallback ==
    /\ (last.op = "prefix" /\ last.outcome = "ok") =>
          \/ last.result = None
          \/ \E k \in 1..Len(stores) : last.result = ChildPrefix(stores[k], last.arg)
    /\ (/\ last.op = "namespace" /\ last.outcome = "ok"
        /\ last.arg \in DOMAIN bound_ns
        /\ last.result = bound_ns[last.arg]
        /\ \E k \in 1..Len(stores) : ChildNamespace(stores[k], last.arg) # None) =>
          \E k \in 1..Len(stores) :
              last.result = ChildNamespace(stores[k], last.arg)

\* C26 (as claimed): when some child has a mapping for the key and no two
\* children disagree, prefix and namespace return a child's mapping,
\* wherever that child stands in the configuration
C26_MappingWhateverThePosition ==
    /\ (/\ last.op = "prefix"
        /\ \E k \in 1..Len(stores) : Truthy(ChildPrefix(stores[k], last.arg))
        /\ ~Disagree(LAMBDA st : ChildPrefix(st, last.arg)))
       => /\ last.outcome = "ok"
          /\ \E k \in 1..Len(stores) :
                /\ Truthy(ChildPrefix(stores[k], last.arg))
                /\ last.result = ChildPrefix(stores[k], last.arg)
    /\ (/\ last.op = "namespace"
        /\ \E k \in 1..Len(stores) : Truthy(ChildNamespace(stores[k], last.arg))
        /\ ~Disagree(LAMBDA st : ChildNamespace(st, last.arg)))
       => /\ last.outcome = "ok"
          /\ \E k \in 1..Len(stores) :
                /\ Truthy(ChildNamespace(stores[k], last.arg))
                /\ last.result = ChildNamespace(stores[k], last.arg)

(***************************************************************************)
(* The contexts a ContextStore is built over                               *)
(***************************************************************************)
CtxIds == {"a", "b", "c"}

\* rdflib.term.Variable terms
Variables == {"?x"}

\* statements (subject, predicate, object); the last three are not ground
S1 == <<"s1", "p", "o1">>
S2 == <<"s2", "p", "o1">>
V1 == <<"?x", "p", "o1">>
V2 == <<"s1", "?x", "o1">>
V3 == <<"s1", "p", "?x">>

\* ctx.contents_triples() of each context, in the order it yields them
ContentChoices ==
    { [a |-> <<>>,           b |-> <<>>,       c |-> <<S2>>],
      [a |-> <<S1, V1>>,     b |-> <<S1, S2>>, c |-> <<S2>>],
      [a |-> <<V2, S1, S2>>, b |-> <<V3>>,     c |-> <<S2>>],
      [a |-> <<S1>>,         b |-> <<S2, V1>>, c |-> <<>>] }

\* ctx.imports of each context, in order (a context may occur twice, and
\* the imports may form a cycle)
ImportChoices ==
    { [a |-> <<>>,         b |-> <<>>,    c |-> <<>>],
      [a |-> <<"b", "b">>, b |-> <<>>,    c |-> <<>>],
      [a |-> <<"b", "c">>, b |-> <<"c">>, c |-> <<>>],
      [a |-> <<"b">>,      b |-> <<"a">>, c |-> <<"b">>] }

\* the quads of the backing store (context.rdf.store), in its order
BackingChoices ==
    { <<>>,
      << <<S1, "a">>, <<S2, "b">> >>,
      << <<S1, "a">>, <<S1, "c">>, <<S2, "c">> >> }

\* the CONTEXT_IMPORTS edges recorded in the imports graph
StoredImportChoices == { {}, { <<"a", "b">> } }

Worlds ==
    [contents : ContentChoices, imports : ImportChoices,
     backing : BackingChoices, stored_imports : StoredImportChoices]

(***************************************************************************)
(* The in-memory index of a ContextStore (rdflib Memory store): a sequence *)
(* of distinct quads (statement, context identifier), in insertion order   *)
(***************************************************************************)
\* isinstance(s, Variable) or isinstance(p, Variable) or isinstance(o, Variable)
HasVariable(t) == t[1] \in Variables \/ t[2] \in Variables \/ t[3] \in Variables

\* Memory.addN(quads)
RECURSIVE MemAddN(_, _)
MemAddN(mem, quads) ==
    IF quads = <<>> THEN mem
    ELSE MemAddN(IF \E k \in 1..Len(mem) : mem[k] = Head(quads)
                 THEN mem ELSE Append(mem, Head(quads)),
                 Tail(quads))

\* a triple pattern: each place is None or a term
PatternMatches(t, pattern) ==
    \A i \in 1..3 : pattern[i] = None \/ pattern[i] = t[i]

\* the contexts a store (a sequence of quads) holds the statement in
ContextsOf(quads, t) == {quads[k][2] : k \in {j \in 1..Len(quads) : quads[j][1] = t}}

\* store.triples(pattern, context): each matching statement once, with the
\* contexts that hold it
StoreTriples(quads, pattern, context) ==
    LET hits == SelectSeq(quads, LAMBDA q : /\ PatternMatches(q[1], pattern)
                                            /\ (context = None \/ q[2] = context))
        ts   == Dedup([k \in 1..Len(hits) |-> hits[k][1]])
    IN  [k \in 1..Len(ts) |-> <<ts[k], ContextsOf(quads, ts[k])>>]

\* store.__len__(context): the number of statements (in the context)
StoreLen(quads, context) ==
    Cardinality({quads[k][1] : k \in {j \in 1..Len(quads) :
                                         context = None \/ quads[j][2] = context}})

\* store.contexts(triple): the contexts of the store (holding the triple)
StoreContexts(quads, triple) ==
    LET hits == SelectSeq(quads, LAMBDA q : triple = None \/ q[1] = triple)
    IN  Dedup([k \in 1..Len(hits) |-> hits[k][2]])

(***************************************************************************)
(* ContextStore                                                            *)
(***************************************************************************)
\* a variant that files every statement under one identifier
GroundQuads_one_tag(w, ctxid) ==
    LET ts == SelectSeq(w.contents[ctxid], LAMBDA t : ~HasVariable(t))
    IN  [k \in 1..Len(ts) |-> <<ts[k], "a">>]

\* the ground statements of a context, tagged with the context's identifier
GroundQuads(w, ctxid) ==
    LET ts == SelectSeq(w.contents[ctxid], LAMBDA t : ~HasVariable(t))
    IN  [k \in 1..Len(ts) |-> <<ts[k], ctxid>>]

\* a variant of _init_store0 in which seen is kept per branch of the
\* descent instead of being shared by the whole descent
RECURSIVE InitStore0_seen_per_branch(_, _, _)
RECURSIVE InitImports_seen_per_branch(_, _, _)
InitStore0_seen_per_branch(w, ctxid, acc) ==
    IF ctxid \in acc.seen THEN acc
    ELSE InitImports_seen_per_branch(w, w.imports[ctxid],
                     [seen  |-> acc.seen \cup {ctxid},
                      mem   |-> MemAddN(acc.mem, GroundQuads(w, ctxid)),
                      calls |-> acc.calls + 1])

InitImports_seen_per_branch(w, imports, acc) ==
    IF imports = <<>> THEN acc
    ELSE LET sub == InitStore0_seen_per_branch(w, Head(imports), acc)
         IN  InitImports_seen_per_branch(w, Tail(imports),
                                         [sub EXCEPT !.seen = acc.seen])

\* _init_store0(ctx, seen): acc holds seen, the memory store and the
\* number of contexts whose statements were read
RECURSIVE InitStore0(_, _, _)
RECURSIVE InitImports(_, _, _)
InitStore0(w, ctxid, acc) ==
    IF ctxid \in acc.seen THEN acc
    ELSE InitImports(w, w.imports[ctxid],
                     [seen  |-> acc.seen \cup {ctxid},
                      mem   |-> MemAddN(acc.mem, GroundQuads(w, ctxid)),
                      calls |-> acc.calls + 1])

\* for cctx in ctx.imports: self._init_store0(cctx, seen)
InitImports(w, imports, acc) ==
    IF imports = <<>> THEN acc
    ELSE InitImports(w, Tail(imports), InitStore0(w, Head(imports), acc))

(***************************************************************************)
(* RDFContextStore: the overlay over the backing store                     *)
(***************************************************************************)
\* the elements of a finite set, in one fixed order
RECURSIVE SetToSeq(_)
SetToSeq(S) ==
    IF S = {} THEN <<>>
    ELSE LET x == CHOOSE y \in S : TRUE IN <<x>> \o SetToSeq(S \ {x})

\* transitive_lookup(store, start, CONTEXT_IMPORTS, imports_graph): start
\* and everything reached from it over the recorded import edges
RECURSIVE TransitiveLookup(_, _, _)
TransitiveLookup(edges, border, res) ==
    IF border = {} THEN res
    ELSE LET seen == res \cup border
         IN  TransitiveLookup(edges,
                              {e[2] : e \in {d \in edges : d[1] \in border}} \ seen,
                              seen)

\* the body of __init_contexts(): the closure, the two counts and the plan
ComputeContexts(r, w) ==
    LET imports ==
            IF r.context = None
            THEN {w.backing[k][2] : k \in 1..Len(w.backing)}
            ELSE IF r.include_imports
            THEN TransitiveLookup(w.stored_imports, {r.context}, {})
            ELSE {r.context}
        cs_seq == SetToSeq(imports)
        total_triples == StoreLen(w.backing, None)
        per_ctx_triples ==
            LET RECURSIVE Sum(_)
                Sum(k) == IF k = 0 THEN 0
                          ELSE Sum(k - 1) + StoreLen(w.backing, cs_seq[k])
            IN  Sum(Len(cs_seq))
    IN  [r EXCEPT !.initialized = TRUE,
                  !.context_transitive_imports = imports,
                  !.total_triples = total_triples,
                  !.per_ctx_triples = per_ctx_triples,
                  !.query_perctx = total_triples > per_ctx_triples]

\* a variant of __init_contexts() that computes again on every call
RdfInitContexts_every_call(r, w) == ComputeContexts(r, w)

\* __init_contexts(): the closure and the plan, computed on first use
RdfInitContexts(r, w) ==
    IF r.initialized THEN r ELSE ComputeContexts(r, w)

\* a variant of _determine_context that lets every context through
RdfDetermineContext_no_bad(r, context) ==
    IF Cardinality(r.context_transitive_imports) = 1 /\ context = None
    THEN CHOOSE c \in r.context_transitive_imports : TRUE
    ELSE context

\* a variant of _determine_context without the single-context rule
RdfDetermineContext_no_single(r, context) ==
    IF context # None /\ context \notin r.context_transitive_imports
    THEN "_BAD_CONTEXT"
    ELSE context

\* _determine_context(context): "_BAD_CONTEXT", None or the context
RdfDetermineContext(r, context) ==
    IF context # None /\ context \notin r.context_transitive_imports
    THEN "_BAD_CONTEXT"
    ELSE IF Cardinality(r.context_transitive_imports) = 1 /\ context = None
    THEN CHOOSE c \in r.context_transitive_imports : TRUE
    ELSE context

\* a variant that yields what store.triples yields, contexts untouched
ScanAndFilter_unrestricted(r, found) == found

\* the results of store.triples restricted to the closure; only results
\* with a context left are yielded
ScanAndFilter(r, found) ==
    LET cut == [k \in 1..Len(found) |->
                  <<found[k][1],
                    IF r.context_transitive_imports # {}
                    THEN r.context_transitive_imports \cap found[k][2]
                    ELSE found[k][2]>>]
    IN  SelectSeq(cut, LAMBDA x : x[2] # {})

\* the query-per-context plan: each context of the closure in turn
RECURSIVE QueryPerContext(_, _, _, _)
QueryPerContext(r, w, pattern, ctxs) ==
    IF ctxs = <<>> THEN <<>>
    ELSE LET found == StoreTriples(w.backing, pattern, Head(ctxs))
         IN  [k \in 1..Len(found) |->
                 <<found[k][1], r.context_transitive_imports \cap found[k][2]>>]
             \o QueryPerContext(r, w, pattern, Tail(ctxs))

\* a variant of the plan choice that does not look at the pattern
UsesPerContext_any_pattern(r, pattern, ctx) ==
    ctx = None /\ r.query_perctx

\* whether triples takes the query-per-context plan (ctx: the resolved
\* context)
UsesPerContext(r, pattern, ctx) ==
    pattern = <<None, None, None>> /\ ctx = None /\ r.query_perctx

\* triples(pattern, context) of an overlay whose closure is computed
RdfTriples(r, w, pattern, context) ==
    LET ctx == RdfDetermineContext(r, context)
    IN  IF ctx = "_BAD_CONTEXT" THEN <<>>
        ELSE IF UsesPerContext(r, pattern, ctx)
        THEN QueryPerContext(r, w, pattern, SetToSeq(r.context_transitive_imports))
        ELSE ScanAndFilter(r, StoreTriples(w.backing, pattern, ctx))

\* contexts(triple) of an overlay whose closure is computed
RdfContexts(r, w, triple) ==
    IF triple # None
    THEN LET found == RdfTriples(r, w, triple, None)
         IN  Chain([k \in 1..Len(found) |-> SetToSeq(found[k][2])])
    ELSE SetToSeq(r.context_transitive_imports)

\* RDFContextStore(ctx, imports_graph=...): nothing computed yet.
\* initialized says that __context_transitive_imports is not None;
\* total_triples and per_ctx_triples keep the two counts __init_contexts
\* compared
NewRDFContextStore(ctxid) ==
    [context |-> ctxid, include_imports |-> TRUE, initialized |-> FALSE,
     context_transitive_imports |-> {}, query_perctx |-> FALSE,
     total_triples |-> 0, per_ctx_triples |-> 0]

\* ContextStore(context, include_stored).  ctx is "unset" until _init_store
\* assigns it; has_memory says that _memory_store is not None, has_overlay
\* that _store_store is not None; ingested counts the contexts whose
\* contents_triples() the construction read
NewContextStore(w, context, include_stored) ==
    IF context = None
    THEN [ctx |-> "unset", memory_store |-> <<>>, has_memory |-> FALSE,
          ingested |-> 0,
          include_stored |-> include_stored, has_overlay |-> FALSE,
          store_store |-> NewRDFContextStore(None)]
    ELSE LET built == InitStore0(w, context,
                                 [seen |-> {}, mem |-> <<>>, calls |-> 0])
         IN
         [ctx |-> context,
          memory_store |-> built.mem,
          has_memory |-> TRUE,
          ingested |-> built.calls,
          include_stored |-> include_stored, has_overlay |-> include_stored,
          store_store |-> NewRDFContextStore(context)]

\* a variant of triples in which the overlay's results come first
CSTriples_overlay_first(pattern, context) ==
    /\ UNCHANGED <<aggVars, world, extVars>>
    /\ IF ~cs.has_memory
       THEN /\ last' = Call("triples", <<pattern, context>>,
                            "ContextStoreException", None)
            /\ UNCHANGED cs
       ELSE LET r == RdfInitContexts(cs.store_store, world)
            IN  IF cs.has_overlay
                THEN /\ cs' = [cs EXCEPT !.store_store = r]
                     /\ last' = Call("triples", <<pattern, context>>, "ok",
                                     RdfTriples(r, world, pattern, context)
                                     \o StoreTriples(cs.memory_store, pattern, context))
                ELSE /\ UNCHANGED cs
                     /\ last' = Call("triples", <<pattern, context>>, "ok",
                                     StoreTriples(cs.memory_store, pattern, context))

\* triples(triple_pattern, context): the staged results, then the overlay's
CSTriples(pattern, context) ==
    /\ UNCHANGED <<aggVars, world, extVars>>
    /\ IF ~cs.has_memory
       THEN /\ last' = Call("triples", <<pattern, context>>,
                            "ContextStoreException", None)
            /\ UNCHANGED cs
       ELSE LET r == RdfInitContexts(cs.store_store, world)
            IN  IF cs.has_overlay
                THEN /\ cs' = [cs EXCEPT !.store_store = r]
                     /\ last' = Call("triples", <<pattern, context>>, "ok",
                                     StoreTriples(cs.memory_store, pattern, context)
                                     \o RdfTriples(r, world, pattern, context))
                ELSE /\ UNCHANGED cs
                     /\ last' = Call("triples", <<pattern, context>>, "ok",
                                     StoreTriples(cs.memory_store, pattern, context))

\* a variant of CSLen: the overlay is looked at before the memory store
CSLen_overlay_first ==
    /\ UNCHANGED <<aggVars, csVars, extVars>>
    /\ IF cs.has_overlay
       THEN last' = Call("len", None, "NotImplementedError", None)
       ELSE IF ~cs.has_memory
       THEN last' = Call("len", None, "ContextStoreException", None)
       ELSE last' = Call("len", None, "ok", StoreLen(cs.memory_store, None))

\* a variant of CSLen: every staged quad is counted
CSLen_counting_quads ==
    /\ UNCHANGED <<aggVars, csVars, extVars>>
    /\ IF ~cs.has_memory
       THEN last' = Call("len", None, "ContextStoreException", None)
       ELSE IF ~cs.has_overlay
       THEN last' = Call("len", None, "ok", Len(cs.memory_store))
       ELSE last' = Call("len", None, "NotImplementedError", None)

\* __len__()
CSLen ==
    /\ UNCHANGED <<aggVars, csVars, extVars>>
    /\ IF ~cs.has_memory
       THEN last' = Call("len", None, "ContextStoreException", None)
       ELSE IF ~cs.has_overlay
       THEN last' = Call("len", None, "ok", StoreLen(cs.memory_store, None))
       ELSE last' = Call("len", None, "NotImplementedError", None)

\* contexts(triple): the staged contexts, then the overlay's, each once
CSContexts(triple) ==
    /\ UNCHANGED <<aggVars, world, extVars>>
    /\ IF ~cs.has_memory
       THEN /\ last' = Call("contexts", <<triple>>, "ContextStoreException", None)
            /\ UNCHANGED cs
       ELSE LET r == RdfInitContexts(cs.store_store, world)
            IN  IF cs.has_overlay
                THEN /\ cs' = [cs EXCEPT !.store_store = r]
                     /\ last' = Call("contexts", <<triple>>, "ok",
                                     Dedup(StoreContexts(cs.memory_store, triple)
                                           \o RdfContexts(r, world, triple)))
                ELSE /\ UNCHANGED cs
                     /\ last' = Call("contexts", <<triple>>, "ok",
                                     Dedup(StoreContexts(cs.memory_store, triple)))

\* close()
CSClose ==
    /\ cs' = [cs EXCEPT !.ctx = None, !.has_memory = FALSE, !.memory_store = <<>>]
    /\ last' = Call("close", None, "ok", None)
    /\ UNCHANGED <<aggVars, world, extVars>>

\* open(configuration)
CSOpen ==
    /\ last' = IF cs.ctx = "unset" THEN Call("open", None, "AttributeError", None)
               ELSE IF cs.ctx # None THEN Call("open", None, "ok", "VALID_STORE")
               ELSE Call("open", None, "ok", "NO_STORE")
    /\ UNCHANGED <<aggVars, csVars, extVars>>

\* add, addN, remove
CSMutators == {"add", "addN", "remove"}

\* a variant of the mutators in which addN reaches the staged index
CSMutate_reaching_memory(op) ==
    /\ op \in CSMutators
    /\ last' = Call(op, None, "NotImplementedError", None)
    /\ cs' = IF op = "addN" /\ cs.has_memory
             THEN [cs EXCEPT !.memory_store = Append(@, <<S1, "c">>)]
             ELSE cs
    /\ UNCHANGED <<aggVars, world, extVars>>

CSMutate(op) ==
    /\ op \in CSMutators
    /\ last' = Call(op, None, "NotImplementedError", None)
    /\ UNCHANGED <<aggVars, csVars, extVars>>

\* the arguments the reads are called with
CSPatternArgs == { <<None, None, None>>, <<"s1", None, None>> }
CSContextArgs == {None, "a", "c"}
CSTripleArgs  == {None, S1}

(***************************************************************************)
(* Specification of one ContextStore object                                *)
(***************************************************************************)
CSInit ==
    /\ AggInit
    /\ NoRDFContextStore
    /\ NoInstaller
    /\ NoMapper
    /\ world \in Worlds
    /\ \E context \in {None, "a", "b"}, include_stored \in BOOLEAN :
          /\ cs = NewContextStore(world, context, include_stored)
          /\ last = Call("__init__", <<context, include_stored>>, "ok", None)

CSNext ==
    \/ \E pattern \in CSPatternArgs, context \in CSContextArgs :
          CSTriples(pattern, context)
    \/ CSLen
    \/ \E triple \in CSTripleArgs : CSContexts(triple)
    \/ CSClose
    \/ CSOpen
    \/ \E op \in CSMutators : CSMutate(op)

CSSpec == CSInit /\ [][CSNext]_vars

(***************************************************************************)
(* Properties of ContextStore (checked under CSSpec)                       *)
(***************************************************************************)
\* C9: triples, __len__ and contexts on a store without a staged index
\* (built without a context, or closed) raise ContextStoreException,
\* whatever the arguments and whether or not include_stored is set.
C9_ReadsNeedStagedIndex ==
    (last.op \in {"triples", "len", "contexts"} /\ ~cs.has_memory)
        => last.outcome = "ContextStoreException"

\* C9 witness: __len__ was rejected on a store that was built with a
\* context and include_stored and then closed
C9_Witness ==
    /\ last.op = "len" /\ last.outcome = "ContextStoreException"
    /\ cs.ctx = None
    /\ cs.include_stored /\ cs.has_overlay
    /\ ~cs.has_memory

\* the contexts reached from the contexts of S in at most n import steps
RECURSIVE ImportsWithin(_, _, _)
ImportsWithin(w, S, n) ==
    IF n = 0 THEN S
    ELSE ImportsWithin(w,
                       S \cup UNION {{w.imports[c][k] : k \in 1..Len(w.imports[c])} :
                                        c \in S},
                       n - 1)

\* the ground statements of the context and of the contexts it imports
StagedStatements(w, ctxid) ==
    UNION {{w.contents[c][k] :
               k \in {j \in 1..Len(w.contents[c]) : ~HasVariable(w.contents[c][j])}} :
              c \in ImportsWithin(w, {ctxid}, Cardinality(CtxIds))}

\* C10: on an initialized store __len__ returns the number of staged
\* statements when the store was built without include_stored (0 for a
\* context without statements and imports), and raises NotImplementedError
\* when it was built with include_stored, whatever the backing store holds.
C10_LenStagedOrNotImplemented ==
    (last.op = "len" /\ cs.has_memory) =>
        IF cs.include_stored
        THEN last.outcome = "NotImplementedError"
        ELSE /\ last.outcome = "ok"
             /\ last.result = Cardinality(StagedStatements(world, cs.ctx))
             /\ (world.contents[cs.ctx] = <<>> /\ world.imports[cs.ctx] = <<>>)
                   => last.result = 0

\* C10 witness: __len__ returned 2 for a store without overlay whose
\* context and import hold 2 statements between them, one in common
C10_Witness ==
    /\ last.op = "len" /\ last.outcome = "ok" /\ last.result = 2
    /\ cs.has_memory /\ ~cs.include_stored
    /\ Len(cs.memory_store) = 3
    /\ world.backing # <<>>

\* C11 as stated: add, addN and remove on a ContextStore are rejected with
\* UnsupportedAggregateOperation.
C11_MutatorsUnsupportedAggregate ==
    (last.op \in CSMutators) => last.outcome = "UnsupportedAggregateOperation"

\* C11, amended: add, addN and remove on a ContextStore are rejected with
\* NotImplementedError, and the call changes neither the staged index (nor
\* any other field of the store) nor the backing store.
C11_MutatorsRejectedNothingChanged ==
    [][(last'.op \in CSMutators) =>
          /\ last'.outcome = "NotImplementedError"
          /\ cs' = cs
          /\ world' = world]_vars

\* C11 witness: addN was rejected on an initialized store with an overlay
\* whose staged index and backing store both hold statements
C11_Witness ==
    /\ last.op = "addN" /\ last.outcome = "NotImplementedError"
    /\ cs.has_memory /\ cs.has_overlay
    /\ cs.memory_store # <<>>
    /\ world.backing # <<>>

\* the contexts reachable from a context through imports, itself included
Reachable(w, ctxid) == ImportsWithin(w, {ctxid}, Cardinality(CtxIds))

\* C12: constructing a ContextStore over a context terminates for every
\* import graph (cyclic ones and ones with several paths to a context
\* included), reads each reachable context once, and leaves the staged
\* index holding exactly the ground statements of the context and of the
\* contexts reachable from it; no statement with a Variable is staged.
C12_StagesGroundClosureOnce ==
    cs.has_memory =>
        /\ cs.ingested = Cardinality(Reachable(world, cs.ctx))
        /\ {cs.memory_store[k][1] : k \in 1..Len(cs.memory_store)}
              = StagedStatements(world, cs.ctx)
        /\ \A k \in 1..Len(cs.memory_store) : ~HasVariable(cs.memory_store[k][1])

\* C12 witness: a store built over a context whose imports form a cycle
\* (a imports b, b imports a) and whose contents include a statement with
\* a Variable; two contexts were read and the Variable statement left out
C12_Witness ==
    /\ last.op = "__init__"
    /\ cs.has_memory /\ cs.ctx = "a"
    /\ world.imports["a"] = <<"b">> /\ world.imports["b"] = <<"a">>
    /\ world.contents["a"] = <<S1, V1>>
    /\ cs.ingested = 2
    /\ cs.memory_store = << <<S1, "a">>, <<S1, "b">>, <<S2, "b">> >>

\* the ground statements among the contents of one context
GroundStatements(w, c) ==
    {t \in {w.contents[c][k] : k \in 1..Len(w.contents[c])} : ~HasVariable(t)}

\* C13 as stated: every staged statement is tagged with the identifier of
\* the context the store was built for.
C13_TaggedWithRootContext ==
    cs.has_memory =>
        \A k \in 1..Len(cs.memory_store) : cs.memory_store[k][2] = cs.ctx

\* C13, amended: every staged statement is tagged with the identifier of
\* the context whose contents supplied it: the staged quads are exactly
\* the pairs (ground statement of c, c) for the reachable contexts c.
C13_TaggedWithSupplyingContext ==
    cs.has_memory =>
        {cs.memory_store[k] : k \in 1..Len(cs.memory_store)}
          = UNION {{<<t, c>> : t \in GroundStatements(world, c)} :
                      c \in Reachable(world, cs.ctx)}

\* C13 witness: a store built for a whose import b supplied S2; S2 is
\* staged under b and not under a
C13_Witness ==
    /\ cs.has_memory /\ cs.ctx = "a"
    /\ \E k \in 1..Len(cs.memory_store) : cs.memory_store[k] = <<S2, "b">>
    /\ \A k \in 1..Len(cs.memory_store) : cs.memory_store[k] # <<S2, "a">>
    /\ \E k \in 1..Len(cs.memory_store) : cs.memory_store[k][2] = "a"

\* the quads of the staged index
StagedQuads == {cs.memory_store[k] : k \in 1..Len(cs.memory_store)}

\* the staged statements that match a pattern in a context (None: any)
StagedMatches(pattern, context) ==
    {q[1] : q \in {x \in StagedQuads : /\ PatternMatches(x[1], pattern)
                                       /\ (context = None \/ x[2] = context)}}

\* the staged contexts (of a triple; None: of any)
StagedContexts(triple) ==
    {q[2] : q \in {x \in StagedQuads : triple = None \/ x[1] = triple}}

\* C19: on an initialized ContextStore, triples yields every matching
\* staged statement once (with the staged contexts that hold it) and then
\* the overlay's results for the same arguments, and nothing after the
\* staged ones when there is no overlay; contexts yields the staged
\* contexts and then the overlay's contexts that were not yielded before,
\* no identifier twice; without an overlay only staged contexts appear.
C19_StagedThenOverlay ==
    /\ (last.op = "triples" /\ last.outcome = "ok") =>
          LET res  == last.result
              hits == StagedMatches(last.arg[1], last.arg[2])
              n    == Cardinality(hits)
          IN  /\ Len(res) >= n
              /\ {res[k][1] : k \in 1..n} = hits
              /\ \A k \in 1..n : res[k][2] = ContextsOf(cs.memory_store, res[k][1])
              /\ SubSeq(res, n + 1, Len(res))
                    = IF cs.has_overlay
                      THEN RdfTriples(cs.store_store, world, last.arg[1], last.arg[2])
                      ELSE <<>>
    /\ (last.op = "contexts" /\ last.outcome = "ok") =>
          LET res    == last.result
              staged == StagedContexts(last.arg[1])
              n      == Cardinality(staged)
              rest   == IF cs.has_overlay
                        THEN SelectSeq(RdfContexts(cs.store_store, world, last.arg[1]),
                                       LAMBDA c : c \notin staged)
                        ELSE <<>>
          IN  /\ \A i, j \in 1..Len(res) : i # j => res[i] # res[j]
              /\ Len(res) >= n
              /\ {res[k] : k \in 1..n} = staged
              /\ SubSeq(res, n + 1, Len(res)) = rest
              /\ ~cs.has_overlay => \A k \in 1..Len(res) : res[k] \in staged

\* C19 witness: triples with the full wildcard on a store with an overlay
\* yielded two staged statements and then a result of the overlay, and
\* the staged index and the backing store share a statement
C19_Witness ==
    /\ last.op = "triples" /\ last.outcome = "ok"
    /\ cs.has_overlay
    /\ Cardinality(StagedMatches(last.arg[1], last.arg[2])) = 2
    /\ Len(last.result) > 2
    /\ \E k \in 1..Len(world.backing) : world.backing[k][1] \in StagedMatches(last.arg[1], last.arg[2])

\* C29 (as claimed): open never raises; it returns VALID_STORE when the
\* store has a context and NO_STORE when it has none, whether it never
\* had one or lost it to close
C29_OpenNeverRaises ==
    (last.op = "open")
    => /\ last.outcome = "ok"
       /\ last.result = IF cs.ctx \in CtxIds THEN "VALID_STORE" ELSE "NO_STORE"

(***************************************************************************)
(* RDFContextStore over a backing store that other users change            *)
(***************************************************************************)
\* RDFContextStore(context, imports_graph, include_imports)
RDFContextStoreInit(ctxid, include_imports) ==
    [NewRDFContextStore(ctxid) EXCEPT !.include_imports = include_imports]

\* a call on the RDFContextStore and what it did: plan is the plan taken,
\* asked the context arguments of the store.triples and
\* store.triples_choices calls made, counted the contexts whose length
\* __init_contexts asked the store for
RCall(op, arg, result, plan, asked, counted) ==
    [op |-> op, arg |-> arg, outcome |-> "ok", result |-> result,
     plan |-> plan, asked |-> asked, counted |-> counted]

\* the contexts __init_contexts counts when the call r0 -> r computes
Counted(r0, r) == IF r0.initialized THEN {} ELSE r.context_transitive_imports

\* the plan triples takes
RdfPlan(r, pattern, context) ==
    LET ctx == RdfDetermineContext(r, context)
    IN  IF ctx = "_BAD_CONTEXT" THEN "none"
        ELSE IF UsesPerContext(r, pattern, ctx) THEN "per_context"
        ELSE "scan_filter"

\* the context arguments triples passes to store.triples
RdfAsked(r, pattern, context) ==
    LET ctx == RdfDetermineContext(r, context)
    IN  IF ctx = "_BAD_CONTEXT" THEN {}
        ELSE IF UsesPerContext(r, pattern, ctx) THEN r.context_transitive_imports
        ELSE {ctx}

\* store.triples_choices(choices, context): the results of store.triples
\* for each alternative pattern in turn
StoreTriplesChoices(quads, choices, context) ==
    Chain([k \in 1..Len(choices) |-> StoreTriples(quads, choices[k], context)])

\* triples_choices(pattern, context) of an overlay whose closure is computed
RdfTriplesChoices(r, w, choices, context) ==
    LET ctx == RdfDetermineContext(r, context)
    IN  IF ctx = "_BAD_CONTEXT" THEN <<>>
        ELSE ScanAndFilter(r, StoreTriplesChoices(w.backing, choices, ctx))

\* a variant of remove that deletes from every context a result names
RdfRemove_every_context(r, w, pattern, context) ==
    LET ctx == RdfDetermineContext(r, context)
    IN  IF ctx = "_BAD_CONTEXT" THEN w.backing
        ELSE LET found  == StoreTriples(w.backing, pattern, ctx)
                 doomed == UNION {{<<found[k][1], c>> : c \in found[k][2]} :
                                     k \in 1..Len(found)}
             IN  SelectSeq(w.backing, LAMBDA q : q \notin doomed)

\* remove(pattern, context) of an overlay whose closure is computed: the
\* backing store afterwards
RdfRemove(r, w, pattern, context) ==
    LET ctx == RdfDetermineContext(r, context)
    IN  IF ctx = "_BAD_CONTEXT" THEN w.backing
        ELSE LET found  == StoreTriples(w.backing, pattern, ctx)
                 inter(contexts) ==
                     IF r.context_transitive_imports # {}
                     THEN r.context_transitive_imports \cap contexts
                     ELSE contexts
                 doomed == UNION {{<<found[k][1], c>> : c \in inter(found[k][2])} :
                                     k \in 1..Len(found)}
             IN  SelectSeq(w.backing, LAMBDA q : q \notin doomed)

\* triples(pattern, context)
RTriples(pattern, context) ==
    LET r == RdfInitContexts(rcs, world)
    IN  /\ rcs' = r
        /\ last' = RCall("triples", <<pattern, context>>,
                         RdfTriples(r, world, pattern, context),
                         RdfPlan(r, pattern, context),
                         RdfAsked(r, pattern, context),
                         Counted(rcs, r))
        /\ UNCHANGED <<aggVars, world, cs, inst, mappers>>

\* triples_choices(pattern, context)
RTriplesChoices(choices, context) ==
    LET r   == RdfInitContexts(rcs, world)
        ctx == RdfDetermineContext(r, context)
    IN  /\ rcs' = r
        /\ last' = RCall("triples_choices", <<choices, context>>,
                         RdfTriplesChoices(r, world, choices, context),
                         IF ctx = "_BAD_CONTEXT" THEN "none" ELSE "scan_filter",
                         IF ctx = "_BAD_CONTEXT" THEN {} ELSE {ctx},
                         Counted(rcs, r))
        /\ UNCHANGED <<aggVars, world, cs, inst, mappers>>

\* remove(pattern, context)
RRemove(pattern, context) ==
    LET r   == RdfInitContexts(rcs, world)
        ctx == RdfDetermineContext(r, context)
    IN  /\ rcs' = r
        /\ world' = [world EXCEPT !.backing = RdfRemove(r, world, pattern, context)]
        /\ last' = RCall("remove", <<pattern, context>>, None,
                         IF ctx = "_BAD_CONTEXT" THEN "none" ELSE "scan_filter",
                         IF ctx = "_BAD_CONTEXT" THEN {} ELSE {ctx},
                         Counted(rcs, r))
        /\ UNCHANGED <<aggVars, cs, inst, mappers>>

\* contexts(triple)
RContexts(triple) ==
    LET r == RdfInitContexts(rcs, world)
    IN  /\ rcs' = r
        /\ last' = IF triple # None
                   THEN RCall("contexts", <<triple>>, RdfContexts(r, world, triple),
                              RdfPlan(r, triple, None), RdfAsked(r, triple, None),
                              Counted(rcs, r))
                   ELSE RCall("contexts", <<triple>>, RdfContexts(r, world, triple),
                              "none", {}, Counted(rcs, r))
        /\ UNCHANGED <<aggVars, world, cs, inst, mappers>>

\* another user of the backing store adds a statement to a context
StoreAdd(q) ==
    /\ \A k \in 1..Len(world.backing) : world.backing[k] # q
    /\ world' = [world EXCEPT !.backing = Append(@, q)]
    /\ last' = RCall("store.add", q, None, "none", {}, {})
    /\ UNCHANGED <<aggVars, cs, rcs, inst, mappers>>

\* an import edge is recorded in the imports graph
ImportsAdd(e) ==
    /\ e \notin world.stored_imports
    /\ world' = [world EXCEPT !.stored_imports = @ \cup {e}]
    /\ last' = RCall("imports.add", e, None, "none", {}, {})
    /\ UNCHANGED <<aggVars, cs, rcs, inst, mappers>>

\* the arguments the operations are called with
RPatternArgs == { <<None, None, None>>, <<"s1", None, None>> }
RChoicesArgs == { << <<"s1", None, None>>, <<"s2", None, None>> >> }
RContextArgs == {None, "a", "c"}
RTripleArgs  == {None, S1}
AddedQuads   == { <<S1, "b">>, <<S2, "c">> }
AddedImports == { <<"a", "b">> }

(***************************************************************************)
(* Specification of one RDFContextStore object                             *)
(***************************************************************************)
RWorlds == [backing : BackingChoices, stored_imports : StoredImportChoices]

RInit ==
    /\ AggInit
    /\ NoInstaller
    /\ NoMapper
    /\ cs = None
    /\ world \in RWorlds
    /\ \E context \in {None, "a"}, include_imports \in BOOLEAN :
          /\ rcs = RDFContextStoreInit(context, include_imports)
          /\ last = RCall("__init__", <<context, include_imports>>, None,
                          "none", {}, {})

RNext ==
    \/ \E pattern \in RPatternArgs, context \in RContextArgs :
          RTriples(pattern, context)
    \/ \E choices \in RChoicesArgs, context \in RContextArgs :
          RTriplesChoices(choices, context)
    \/ \E pattern \in RPatternArgs, context \in RContextArgs :
          RRemove(pattern, context)
    \/ \E triple \in RTripleArgs : RContexts(triple)
    \/ \E q \in AddedQuads : StoreAdd(q)
    \/ \E e \in AddedImports : ImportsAdd(e)

RSpec == RInit /\ [][RNext]_vars

(***************************************************************************)
(* Properties of RDFContextStore (checked under RSpec)                     *)
(***************************************************************************)
RQueries == {"triples", "triples_choices", "remove", "contexts"}

\* the statements the backing store holds in a context
Held(w, c) == {q[1] : q \in {x \in {w.backing[k] : k \in 1..Len(w.backing)} : x[2] = c}}

\* the statements the backing store holds
HeldAnywhere(w) == {w.backing[k][1] : k \in 1..Len(w.backing)}

\* the sum of the numbers of statements held in the contexts of S
RECURSIVE SumHeld(_, _)
SumHeld(w, S) ==
    IF S = {} THEN 0
    ELSE LET c == CHOOSE x \in S : TRUE
         IN  Cardinality(Held(w, c)) + SumHeld(w, S \ {c})

\* C14: triples, triples_choices and remove with a context that is not in
\* the closure end without an error and with nothing yielded, make no
\* triples query to the backing store, never ask the backing store about
\* that context, and leave the backing store as it was.
C14_BadContextYieldsNothing ==
    [][(/\ last'.op \in {"triples", "triples_choices", "remove"}
        /\ last'.arg[2] # None
        /\ last'.arg[2] \notin rcs'.context_transitive_imports)
       => /\ last'.outcome = "ok"
          /\ last'.op # "remove" => last'.result = <<>>
          /\ last'.asked = {}
          /\ last'.arg[2] \notin last'.counted
          /\ world' = world]_vars

\* C14 witness: remove with context c, which is outside the closure, on a
\* backing store that holds a matching statement in c
C14_Witness ==
    /\ last.op = "remove" /\ last.arg[2] = "c"
    /\ rcs.context_transitive_imports # {}
    /\ "c" \notin rcs.context_transitive_imports
    /\ \E t \in Held(world, "c") : PatternMatches(t, last.arg[1])

\* C15: nothing is computed at construction; the first triples,
\* triples_choices, remove or contexts call computes the closure and the
\* plan from the backing store and the imports graph as they are then;
\* once computed, no later step changes them, whatever was added to the
\* backing store or the imports graph.
C15_ComputedOnceOnFirstQuery ==
    [][/\ last.op = "__init__" => ~rcs.initialized
       /\ last'.op \in RQueries => rcs'.initialized
       /\ (~rcs.initialized /\ rcs'.initialized)
             => last'.op \in RQueries /\ rcs' = ComputeContexts(rcs, world)
       /\ rcs.initialized => rcs' = rcs]_vars

\* C15 witness: a triples call answered with the closure {a} computed
\* earlier, although the imports graph has since recorded that a imports b
\* and the store was built with include_imports
C15_Witness ==
    /\ last.op = "triples"
    /\ rcs.context = "a" /\ rcs.include_imports
    /\ rcs.context_transitive_imports = {"a"}
    /\ <<"a", "b">> \in world.stored_imports
    /\ rcs.query_perctx # (Cardinality(HeldAnywhere(world)) > SumHeld(world, {"a"}))

\* the context _determine_context settles on for a context argument that
\* is None or in the closure
Resolved(r, context) ==
    IF context = None /\ Cardinality(r.context_transitive_imports) = 1
    THEN CHOOSE c \in r.context_transitive_imports : TRUE
    ELSE context

\* the statements the backing store holds (in a context; None: anywhere)
\* that match one of the patterns
MatchesHeld(w, patterns, context) ==
    {t \in (IF context = None THEN HeldAnywhere(w) ELSE Held(w, context)) :
        \E pattern \in patterns : PatternMatches(t, pattern)}

\* the contexts the backing store holds a statement in
HoldersOf(w, t) == {c \in CtxIds : t \in Held(w, c)}

\* the patterns of a triples or triples_choices call
PatternsOf(call) ==
    IF call.op = "triples" THEN {call.arg[1]}
    ELSE {call.arg[1][k] : k \in 1..Len(call.arg[1])}

BackingQuads(w) == {w.backing[k] : k \in 1..Len(w.backing)}

\* C17: with a closure of exactly one context c and no context argument,
\* triples, triples_choices and remove make their one store query in c
\* and give what the same call with context c gives: triples and
\* triples_choices yield the matching statements held in c, each with the
\* context set {c}; remove deletes the matching statements from c and
\* from no other context.
C17_SingleContextResolved ==
    [][(/\ last'.op \in {"triples", "triples_choices", "remove"}
        /\ last'.arg[2] = None
        /\ Cardinality(rcs'.context_transitive_imports) = 1)
       => LET c == CHOOSE x \in rcs'.context_transitive_imports : TRUE
          IN  /\ last'.asked = {c}
              /\ last'.op = "triples" =>
                    /\ last'.result = RdfTriples(rcs', world, last'.arg[1], c)
                    /\ {last'.result[k] : k \in 1..Len(last'.result)}
                          = {<<t, {c}>> : t \in MatchesHeld(world, {last'.arg[1]}, c)}
              /\ last'.op = "triples_choices" =>
                    /\ last'.result = RdfTriplesChoices(rcs', world, last'.arg[1], c)
                    /\ {last'.result[k] : k \in 1..Len(last'.result)}
                          = {<<t, {c}>> : t \in MatchesHeld(world, PatternsOf(last'), c)}
              /\ last'.op = "remove" =>
                    /\ world'.backing = RdfRemove(rcs', world, last'.arg[1], c)
                    /\ BackingQuads(world')
                          = BackingQuads(world)
                              \ {<<t, c>> : t \in MatchesHeld(world, {last'.arg[1]}, c)}]_vars

\* C17 witness: triples without a context on a store whose closure is {a}
\* yielded a statement of a, while the backing store holds the same
\* statement in c as well
C17_Witness ==
    /\ last.op = "triples" /\ last.arg[2] = None
    /\ rcs.context_transitive_imports = {"a"}
    /\ last.asked = {"a"}
    /\ last.result = << <<S1, {"a"}>> >>
    /\ S1 \in Held(world, "c")

\* C18 as stated: whatever the closure, a remove call leaves the
\* statements of every context outside the closure as they were.
C18_RemoveOnlyInClosure ==
    [][last'.op = "remove" =>
          \A c \in CtxIds \ rcs'.context_transitive_imports :
             Held(world', c) = Held(world, c)]_vars

\* C18, amended: when the closure is not empty a remove call leaves the
\* statements of every context outside the closure as they were, and the
\* quads it deletes are matching statements in contexts of the closure;
\* when the closure is empty, remove without a context deletes the
\* matching statements from every context that holds them.
C18_RemoveOnlyInNonEmptyClosure ==
    [][last'.op = "remove" =>
          LET closure == rcs'.context_transitive_imports
              gone    == BackingQuads(world) \ BackingQuads(world')
          IN  /\ BackingQuads(world') \subseteq BackingQuads(world)
              /\ \A q \in gone : PatternMatches(q[1], last'.arg[1])
              /\ closure # {} =>
                    /\ \A q \in gone : q[2] \in closure
                    /\ \A c \in CtxIds \ closure : Held(world', c) = Held(world, c)
              /\ (closure = {} /\ last'.arg[2] = None) =>
                    gone = {q \in BackingQuads(world) :
                               PatternMatches(q[1], last'.arg[1])}]_vars

\* C18 witness: remove of s1 without a context on a store whose closure
\* is {a}: the statement is gone from a and still held in c
C18_Witness ==
    /\ last.op = "remove" /\ last.arg = << <<"s1", None, None>>, None >>
    /\ rcs.context_transitive_imports = {"a"}
    /\ rcs.total_triples = 2 /\ rcs.per_ctx_triples = 1
    /\ Held(world, "a") = {}
    /\ S1 \in Held(world, "c")

\* how often a result occurs among the results of a query
CountIn(results, x) == Cardinality({k \in 1..Len(results) : results[k] = x})

\* C27 (as claimed): what a full-wildcard triples call without a context
\* yields under the query-per-context plan is what the scan-and-filter
\* plan yields over the same backing store and closure: the same pairs
\* of a statement and its contexts within the closure, each as often
C27_PlansYieldTheSame ==
    (last.op = "triples" /\ last.plan = "per_context")
    => LET scan == ScanAndFilter(rcs, StoreTriples(world.backing,
                                                   <<None, None, None>>, None))
       IN  \A x \in {last.result[k] : k \in 1..Len(last.result)}
                    \cup {scan[k] : k \in 1..Len(scan)} :
              CountIn(last.result, x) = CountIn(scan, x)

NoVersion == 0

\* the name of the directory of a version
VersionName(n) == ToString(n)

\* the names that are integer-named version directories
IsVersionName(name) == \E n \in 1..MaxVersion + 1 : VersionName(n) = name

\* the version a directory name stands for
VersionOf(name) == CHOOSE n \in 1..MaxVersion + 1 : VersionName(n) = name

\* the greatest element of a non-empty set of numbers
MaxOf(S) == CHOOSE n \in S : \A k \in S : k <= n

\* the versions among the children of <bundles_root>/<id>/
ExistingVersions(dirs, id) ==
    {VersionOf(e[2]) : e \in {x \in dirs : x[1] = id /\ IsVersionName(x[2])}}

\* the graph an Installer reads and the bundle ids a loader can fetch:
\* the statements of the contexts as the graph yields them (a statement
\* is the number of its N-Triples line), the CONTEXT_IMPORTS statements
IWorlds ==
    [contents : { [ctx1 |-> <<1, 2>>, ctx2 |-> <<2, 1>>],
                  [ctx1 |-> <<1>>,    ctx2 |-> <<2>>] },
     imports : { {}, { <<"ctx1", "ctx2">> } },
     remote : { {}, {"dep"} }]

\* DependencyDescriptor(id, excludes) and Descriptor(id, ...)
Dependency(id, excludes) == [id |-> id, excludes |-> excludes]

Descriptor(id, version, includes, dependencies) ==
    [id |-> id, version |-> version, includes |-> includes,
     dependencies |-> dependencies]

\* the descriptors install is called with
Descriptors ==
    {Descriptor("test", v, {"ctx1", "ctx2"}, <<>>) : v \in {NoVersion} \cup 1..MaxVersion}
    \cup {Descriptor("test", NoVersion, {"ctx1"}, deps) :
             deps \in { <<>>, <<Dependency("dep", {})>>,
                        <<Dependency("dep", {"ctx2"})>> }}
    \cup { Descriptor("dep", NoVersion, {"ctx2"}, <<>>),
           Descriptor("dep", NoVersion, {}, <<Dependency("dep_dep", {})>>),
           Descriptor("dep_dep", NoVersion, {"ctx2"}, <<>>) }

\* the descriptor of the bundle a loader installs for an id
LoadedDescriptor(id) == Descriptor(id, NoVersion, {"ctx2"}, <<>>)

\* a variant of the canonical form that keeps the order of the graph
Canonical_as_listed(statements) == statements

\* the canonical serialization of a context: its statements in sorted order
Canonical(statements) == SortSeq(statements, LAMBDA x, y : x < y)

\* the hash of a serialization (8 bits kept)
RECURSIVE Hash(_)
Hash(lines) ==
    IF lines = <<>> THEN 7
    ELSE (Hash(SubSeq(lines, 1, Len(lines) - 1)) * 31 + lines[Len(lines)]) % 256

\* a variant in which anything but an installed bundle counts as empty
IsNonEmpty_bundles_only(bundles, id, name) ==
    \E b \in bundles : b.id = id /\ b.name = name /\ ~b.foreign

\* whether <bundles_root>/<id>/<name> has an entry
IsNonEmpty(bundles, id, name) ==
    \E b \in bundles : b.id = id /\ b.name = name

\* a variant that gives a descriptor without a version the version after
\* the latest one
TargetVersion_next(dirs, d) ==
    IF d.version # NoVersion THEN d.version
    ELSE IF ExistingVersions(dirs, d.id) = {} THEN 1
    ELSE MaxOf(ExistingVersions(dirs, d.id)) + 1

\* the version directory install writes to: a descriptor without a
\* version is installed as version 1
TargetVersion(dirs, d) == IF d.version = NoVersion THEN 1 ELSE d.version

\* what install writes for a descriptor: a record per context in
\* graphs/hashes and graphs/index, and a content file per hash
WrittenBundle(w, d, name) ==
    LET records == {<<c, Hash(Canonical(w.contents[c]))>> : c \in d.includes}
    IN  [id |-> d.id, name |-> name, foreign |-> FALSE,
         hashes |-> records, index |-> records,
         files |-> {r[2] : r \in records},
         dependencies |-> d.dependencies]

\* the bundles directory after install has written to <id>/<name>
Written(i, b) ==
    [i EXCEPT !.dirs = @ \cup {<<b.id, b.name>>},
              !.bundles = {x \in @ : ~(x.id = b.id /\ x.name = b.name)} \cup {b}]

\* a variant that counts the version directories
LatestVersion_counting(dirs, id) == Cardinality(ExistingVersions(dirs, id))

\* the directory Bundle(id) resolves to without a version: the greatest
\* integer name, 0 when there is none
LatestVersion(dirs, id) ==
    IF ExistingVersions(dirs, id) = {} THEN 0
    ELSE MaxOf(ExistingVersions(dirs, id))

\* the contexts of the latest installed bundle of an id
BundleContexts(i, id) ==
    UNION {{r[1] : r \in b.index} :
              b \in {x \in i.bundles :
                        x.id = id /\ x.name = VersionName(LatestVersion(i.dirs, id))}}

\* the bundles directory after the dependencies that are not installed
\* have been fetched: the loader installs the bundle it loads
RECURSIVE Fetched(_, _, _)
Fetched(w, i, dependencies) ==
    IF dependencies = <<>> THEN i
    ELSE LET id == Head(dependencies).id
             d  == LoadedDescriptor(id)
         IN  Fetched(w,
                     IF LatestVersion(i.dirs, id) = 0 /\ id \in w.remote
                     THEN Written(i, WrittenBundle(w, d, VersionName(TargetVersion(i.dirs, d))))
                     ELSE i,
                     Tail(dependencies))

\* a variant of the coverage that follows dependencies of dependencies
RECURSIVE Coverage_transitive(_, _)
Coverage_transitive(i, dependencies) ==
    UNION {(BundleContexts(i, dependencies[k].id) \ dependencies[k].excludes)
           \cup UNION {Coverage_transitive(i, b.dependencies) :
                          b \in {x \in i.bundles :
                                    /\ x.id = dependencies[k].id
                                    /\ x.name = VersionName(LatestVersion(i.dirs, x.id))}} :
              k \in 1..Len(dependencies)}

\* the contexts the declared dependencies cover
Coverage(i, dependencies) ==
    UNION {BundleContexts(i, dependencies[k].id) \ dependencies[k].excludes :
              k \in 1..Len(dependencies)}

\* the import targets of the included contexts that nothing covers
Uncovered(w, i, d) ==
    {e[2] : e \in {x \in w.imports : x[1] \in d.includes}}
        \ (d.includes \cup Coverage(i, d.dependencies))

\* Installer.install(descriptor).  dirs are the children of the id
\* directories, bundles what the non-empty ones hold
Install(d) ==
    LET name == VersionName(TargetVersion(inst.dirs, d))
    IN  /\ \A k \in 1..Len(d.dependencies) :
              \/ LatestVersion(inst.dirs, d.dependencies[k].id) # 0
              \/ d.dependencies[k].id \in world.remote
        /\ IF IsNonEmpty(inst.bundles, d.id, name)
           THEN /\ last' = Call("install", d, "TargetIsNotEmpty", None)
                /\ UNCHANGED inst
           ELSE LET written == Written(inst, WrittenBundle(world, d, name))
                    fetched == Fetched(world, written, d.dependencies)
                IN  /\ inst' = fetched
                    /\ last' = IF Uncovered(world, fetched, d) # {}
                               THEN Call("install", d, "UncoveredImports",
                                         Uncovered(world, fetched, d))
                               ELSE Call("install", d, "ok", name)
        /\ UNCHANGED <<aggVars, csVars, rcs, mappers>>

\* what the bundles directory holds before the first install
InitialDirs ==
    { [dirs |-> {}, bundles |-> {}],
      [dirs |-> {<<"test", "1">>, <<"test", "tmp">>}, bundles |-> {}],
      [dirs |-> {<<"test", "1">>},
       bundles |-> {[id |-> "test", name |-> "1", foreign |-> TRUE,
                     hashes |-> {}, index |-> {}, files |-> {},
                     dependencies |-> <<>>]}],
      [dirs |-> {<<"test", "2">>},
       bundles |-> {[id |-> "test", name |-> "2", foreign |-> TRUE,
                     hashes |-> {}, index |-> {}, files |-> {},
                     dependencies |-> <<>>]}] }

(***************************************************************************)
(* Specification of one Installer                                          *)
(***************************************************************************)
IInit ==
    /\ AggInit
    /\ cs = None
    /\ NoRDFContextStore
    /\ NoMapper
    /\ world \in IWorlds
    /\ inst \in InitialDirs
    /\ last = Call("__init__", None, "ok", None)

INext == \E d \in Descriptors : Install(d)

ISpec == IInit /\ [][INext]_vars

(***************************************************************************)
(* Bundle: the directory a bundle resolves to and its store configuration  *)
(***************************************************************************)
\* what an installed version directory holds, its manifest included
Installed(id, name, dependencies) ==
    [id |-> id, name |-> name, foreign |-> FALSE, hashes |-> {},
     index |-> {}, files |-> {}, dependencies |-> dependencies]

\* the bundles directories a Bundle is opened on: root is whether the
\* bundles directory is there and can be read, ids the directories in it.
\* td and dd are the dependencies the manifests of test and dep declare,
\* names the children of <bundles_root>/test/
BundleRoots ==
    { [root |-> r, ids |-> {}, dirs |-> {}, bundles |-> {}] :
         r \in {"absent", "denied", "present"} }
    \cup
    { [root |-> "present",
       ids |-> {"test", "dep"} \cup more,
       dirs |-> {<<"test", n>> : n \in names} \cup {<<"dep", VersionName(1)>>}
                \cup {<<id, VersionName(1)>> : id \in more},
       bundles |-> {Installed("test", n, td) : n \in {x \in names : IsVersionName(x)}}
                   \cup {Installed("dep", VersionName(1), dd)}
                   \cup {Installed(id, VersionName(1), <<>>) : id \in more}] :
         td \in { <<Dependency("dep", {}), Dependency("dep_dep", {})>>,
                  <<Dependency("dep", {"ctx1"}), Dependency("dep_dep", {})>>,
                  <<Dependency("dep_dep", {}), Dependency("dep", {})>>,
                  <<Dependency("dep", {"ctx1"}), Dependency("dep", {})>>,
                  <<Dependency("dep", {})>> },
         dd \in { <<Dependency("dep_dep", {})>>,
                  <<Dependency("dep_dep", {"ctx2"})>> },
         names \in { {}, {"tmp"}, {VersionName(1)},
                     {"tmp", VersionName(MaxVersion)},
                     {VersionName(v) : v \in 1..MaxVersion} },
         more \in { {}, {"dep_dep"} } }

\* Bundle._get_bundle_directory: the outcomes it can end with
GetBundleDirectoryOutcomes(i, id, version) ==
    IF i.root = "absent"
    THEN {[outcome |-> "BundleNotFound", result |-> "Bundle directory"]}
    ELSE IF i.root = "denied"
    THEN IF version = NoVersion
         THEN {[outcome |-> "OSError", result |-> "Permission denied"]}
         ELSE {[outcome |-> "OSError", result |-> "Permission denied"],
               [outcome |-> "BundleNotFound", result |-> "specified version"]}
    ELSE IF version # NoVersion
    THEN IF <<id, VersionName(version)>> \in i.dirs
         THEN {[outcome |-> "ok", result |-> <<id, VersionName(version)>>]}
         ELSE {[outcome |-> "BundleNotFound", result |-> "specified version"]}
    ELSE IF id \notin i.ids
    THEN {[outcome |-> "BundleNotFound", result |-> "Bundle directory"]}
    ELSE IF LatestVersion(i.dirs, id) = 0
    THEN {[outcome |-> "BundleNotFound",
           result |-> "No versioned bundle directories"]}
    ELSE {[outcome |-> "ok",
           result |-> <<id, VersionName(LatestVersion(i.dirs, id))>>]}

\* the manifest's dependencies of an installed bundle directory
ManifestDependencies(i, dir) ==
    LET found == {b \in i.bundles : b.id = dir[1] /\ b.name = dir[2]}
    IN  IF found = {} THEN <<>> ELSE (CHOOSE b \in found : TRUE).dependencies

\* the entry of a bundle's own backing store
OwnStore(dir) ==
    [type |-> "FileStorageZODB", url |-> dir, conf |-> <<>>, excludes |-> {}]

\* the entry of a dependency: the nested configuration and the excludes
\* of the edge
AggregateEntry(conf, excludes) ==
    [type |-> "agg", url |-> <<>>, conf |-> conf, excludes |-> excludes]

\* a variant in which what a dependency's subtree has seen is forgotten
\* when the traversal returns from it
RECURSIVE GatherDependencyConfigs_seen_per_branch(_, _, _, _)
GatherDependencyConfigs_seen_per_branch(i, dependencies, path, seen) ==
    IF dependencies = <<>>
    THEN [confs |-> <<>>, seen |-> seen, missing |-> FALSE]
    ELSE LET dd  == Head(dependencies)
             dep_path == path \cup dd.excludes
             key == <<dd.id, dep_path>>
             dir == <<dd.id, VersionName(LatestVersion(i.dirs, dd.id))>>
         IN  IF key \in seen
             THEN GatherDependencyConfigs_seen_per_branch(
                      i, Tail(dependencies), path, seen)
             ELSE IF LatestVersion(i.dirs, dd.id) = 0
             THEN [confs |-> <<>>, seen |-> seen, missing |-> TRUE]
             ELSE LET inner == GatherDependencyConfigs_seen_per_branch(
                                   i, ManifestDependencies(i, dir), dep_path,
                                   seen \cup {key})
                      rest  == GatherDependencyConfigs_seen_per_branch(
                                   i, Tail(dependencies), path, seen \cup {key})
                  IN  [confs |-> <<AggregateEntry(<<OwnStore(dir)>> \o inner.confs,
                                                  dd.excludes)>> \o rest.confs,
                       seen |-> rest.seen,
                       missing |-> inner.missing \/ rest.missing]

\* the entries of the dependencies of a manifest, depth first in
\* declaration order.  path is the excludes collected on the way from the
\* bundle that was opened, seen the (id, path) pairs met so far in the
\* whole build
RECURSIVE GatherDependencyConfigs(_, _, _, _)
GatherDependencyConfigs(i, dependencies, path, seen) ==
    IF dependencies = <<>>
    THEN [confs |-> <<>>, seen |-> seen, missing |-> FALSE]
    ELSE LET dd  == Head(dependencies)
             dep_path == path \cup dd.excludes
             key == <<dd.id, dep_path>>
             dir == <<dd.id, VersionName(LatestVersion(i.dirs, dd.id))>>
         IN  IF key \in seen
             THEN GatherDependencyConfigs(i, Tail(dependencies), path, seen)
             ELSE IF LatestVersion(i.dirs, dd.id) = 0
             THEN [confs |-> <<>>, seen |-> seen, missing |-> TRUE]
             ELSE LET inner == GatherDependencyConfigs(
                                   i, ManifestDependencies(i, dir), dep_path,
                                   seen \cup {key})
                      rest  == GatherDependencyConfigs(
                                   i, Tail(dependencies), path, inner.seen)
                  IN  [confs |-> <<AggregateEntry(<<OwnStore(dir)>> \o inner.confs,
                                                  dd.excludes)>> \o rest.confs,
                       seen |-> rest.seen,
                       missing |-> inner.missing \/ rest.missing]

\* the store configuration of the bundle in a directory
ConstructStoreConfig(i, dir) ==
    LET gathered == GatherDependencyConfigs(i, ManifestDependencies(i, dir), {}, {})
    IN  [conf |-> <<OwnStore(dir)>> \o gathered.confs,
         missing |-> gathered.missing]

\* Bundle(id, version)._get_bundle_directory()
GetBundleDirectory(id, version) ==
    /\ \E r \in GetBundleDirectoryOutcomes(inst, id, version) :
          last' = Call("_get_bundle_directory", <<id, version>>,
                       r.outcome, r.result)
    /\ UNCHANGED <<aggVars, csVars, extVars>>

\* Bundle(id, version).conf['rdf.store_conf'] (a Bundle without remotes:
\* a dependency that is not installed cannot be fetched)
StoreConf(id, version) ==
    /\ \E r \in GetBundleDirectoryOutcomes(inst, id, version) :
          last' = IF r.outcome # "ok"
                  THEN Call("store_conf", <<id, version>>, r.outcome, r.result)
                  ELSE IF ConstructStoreConfig(inst, r.result).missing
                  THEN Call("store_conf", <<id, version>>, "BundleNotFound",
                            "Bundle directory")
                  ELSE Call("store_conf", <<id, version>>, "ok",
                            ConstructStoreConfig(inst, r.result).conf)
    /\ UNCHANGED <<aggVars, csVars, extVars>>

(***************************************************************************)
(* Specification of Bundle handles on one bundles directory                *)
(***************************************************************************)
BInit ==
    /\ AggInit
    /\ cs = None
    /\ NoRDFContextStore
    /\ NoMapper
    /\ world = None
    /\ inst \in BundleRoots
    /\ last = Call("__init__", None, "ok", None)

BNext ==
    \E id \in {"test", "dep", "dep_dep"}, version \in {NoVersion} \cup 1..MaxVersion :
       \/ GetBundleDirectory(id, version)
       \/ StoreConf(id, version)

BSpec == BInit /\ [][BNext]_vars

(***************************************************************************)
(* Properties of Bundle                                                    *)
(***************************************************************************)
\* the elements of a sequence
Range(seq) == {seq[k] : k \in 1..Len(seq)}

\* the aggregate entries of a configuration, nested ones included, in the
\* order of the configuration: the bundle, the excludes the entry carries
\* and the excludes collected from the top of the configuration
RECURSIVE EntryKeys(_, _)
EntryKeys(conf, path) ==
    IF conf = <<>> THEN <<>>
    ELSE LET e == Head(conf)
         IN  (IF e.type = "agg"
              THEN <<[id |-> e.conf[1].url[1], excludes |-> e.excludes,
                      path |-> path \cup e.excludes]>>
                   \o EntryKeys(e.conf, path \cup e.excludes)
              ELSE <<>>)
             \o EntryKeys(Tail(conf), path)

\* the (id, collected excludes) pairs of the edges of a bundle's
\* dependency graph
RECURSIVE EdgeClosure(_, _)
EdgeClosure(i, K) ==
    LET declared(k) ==
            Range(ManifestDependencies(
                      i, <<k[1], VersionName(LatestVersion(i.dirs, k[1]))>>))
        next == K \cup UNION {{<<dd.id, k[2] \cup dd.excludes>> : dd \in declared(k)} :
                                 k \in K}
    IN  IF next = K THEN K ELSE EdgeClosure(i, next)

\* the pairs reachable from the bundle whose configuration was built
ReachableKeys(i, conf) ==
    EdgeClosure(i, {<<dd.id, dd.excludes>> :
                       dd \in Range(ManifestDependencies(i, conf[1].url))})

NextVersionName(dirs, id) ==
    IF ExistingVersions(dirs, id) = {} THEN VersionName(1)
    ELSE VersionName(MaxOf(ExistingVersions(dirs, id)) + 1)

C21_PopulatedTargetUntouched ==
    [][/\ (/\ last'.op = "install"
           /\ IsNonEmpty(inst.bundles, last'.arg.id,
                         VersionName(TargetVersion(inst.dirs, last'.arg))))
          => /\ last'.outcome = "TargetIsNotEmpty"
             /\ inst' = inst
       /\ \A b \in inst.bundles : b \in inst'.bundles]_vars

\* an install into the directory an earlier install wrote was refused
C21_Witness ==
    /\ last.op = "install"
    /\ last.outcome = "TargetIsNotEmpty"
    /\ \E b \in inst.bundles :
          /\ ~b.foreign
          /\ b.id = last.arg.id
          /\ b.name = VersionName(TargetVersion(inst.dirs, last.arg))

\* the latest installed bundle of a declared dependency
DeclaredBundles(i, dep) ==
    {b \in i.bundles :
        b.id = dep.id /\ b.name = VersionName(LatestVersion(i.dirs, dep.id))}

\* a declared dependency holds the context and does not exclude it
DirectlyCovered(i, d, ctx) ==
    \E k \in 1..Len(d.dependencies) :
       /\ ctx \notin d.dependencies[k].excludes
       /\ \E b \in DeclaredBundles(i, d.dependencies[k]) :
             \E r \in b.index : r[1] = ctx

\* C22: an install that gets past the target check fails with
\* UncoveredImports exactly when an included context imports a context
\* that is neither included nor held by a directly declared dependency
\* (installed before or fetched by a loader); a dependency of a
\* dependency covers nothing
C22_UncoveredImportsExactly ==
    (last.op = "install" /\ last.outcome # "TargetIsNotEmpty")
    => (last.outcome = "UncoveredImports"
        <=> \E e \in world.imports :
               /\ e[1] \in last.arg.includes
               /\ e[2] \notin last.arg.includes
               /\ ~DirectlyCovered(inst, last.arg, e[2]))

\* the imported context is held only by a dependency of the declared
\* dependency, and the install failed
C22_Witness ==
    /\ last.op = "install"
    /\ last.outcome = "UncoveredImports"
    /\ last.result = {"ctx2"}
    /\ Len(last.arg.dependencies) = 1
    /\ "ctx2" \notin Coverage(inst, last.arg.dependencies)
    /\ "ctx2" \in Coverage_transitive(inst, last.arg.dependencies)

\* the bundle the last install wrote
InstalledBundle ==
    CHOOSE b \in inst.bundles :
       /\ b.id = last.arg.id
       /\ b.name = VersionName(TargetVersion(inst.dirs, last.arg))

\* C24: the bundle an install wrote has as many content files as its
\* included contexts have distinct contents (sets of statements), and a
\* record in graphs/hashes and one in graphs/index for every included
\* context
C24_OneFilePerDistinctContent ==
    (last.op = "install" /\ last.outcome # "TargetIsNotEmpty")
    => /\ Cardinality(InstalledBundle.files)
             = Cardinality({Range(world.contents[c]) : c \in last.arg.includes})
       /\ \A c \in last.arg.includes :
             /\ Cardinality({r \in InstalledBundle.hashes : r[1] = c}) = 1
             /\ Cardinality({r \in InstalledBundle.index : r[1] = c}) = 1
             /\ \A r \in InstalledBundle.index :
                   r[1] = c => r[2] \in InstalledBundle.files

\* two contexts the graph lists in different orders share one file
C24_Witness ==
    /\ last.op = "install"
    /\ last.outcome = "ok"
    /\ last.arg.includes = {"ctx1", "ctx2"}
    /\ world.contents["ctx1"] # world.contents["ctx2"]
    /\ Cardinality(InstalledBundle.files) = 1
    /\ Cardinality(InstalledBundle.hashes) = 2

(***************************************************************************)
(* Mapper: the class tables of a mapper and of the mappers it imports      *)
(***************************************************************************)
\* the classes handed to add_class: fcn is FCN(cls), hook whether the
\* class has on_mapper_add_class.  A1 and A2 are two classes of one name,
\* A1 and B two classes of one RDF type
Classes ==
    { [id |-> "A1", fcn |-> "mod.A", rdf_type |-> "tA", hook |-> FALSE],
      [id |-> "A2", fcn |-> "mod.A", rdf_type |-> "tA2", hook |-> TRUE],
      [id |-> "B",  fcn |-> "mod.B", rdf_type |-> "tA", hook |-> FALSE] }

\* dict.get(key, None) of a dict kept as a set of (key, value) pairs
DictGet(d, key) ==
    IF \E e \in d : e[1] = key THEN (CHOOSE e \in d : e[1] = key)[2] ELSE None

\* d[key] = value
DictSet(d, key, value) == {e \in d : e[1] # key} \cup {<<key, value>>}

\* Mapper(imported=...): empty tables.  notified lists the classes whose
\* on_mapper_add_class was called with this mapper
NewMapper(imported) ==
    [MappedClasses |-> {}, DecoratedMappedClasses |-> {}, RDFTypeTable |-> {},
     imported_mappers |-> imported, notified |-> {}]

\* Mapper._lookup_class(cname): the mapper's own table, then the imported
\* mappers in order, the first that knows the name
RECURSIVE LookupClass(_, _, _)
LookupClass(ms, name, cname) ==
    LET c == DictGet(ms[name].MappedClasses, cname)
        RECURSIVE Imported(_)
        Imported(k) ==
            IF k > Len(ms[name].imported_mappers) THEN None
            ELSE IF LookupClass(ms, ms[name].imported_mappers[k], cname) # None
            THEN LookupClass(ms, ms[name].imported_mappers[k], cname)
            ELSE Imported(k + 1)
    IN  IF c # None THEN c ELSE Imported(1)

\* Mapper.add_class(cls) on the mapper of that name
AddClass(name, cls) ==
    LET maybe_cls == LookupClass(mappers, name, cls.fcn)
    IN  /\ IF maybe_cls # None
           THEN /\ last' = IF maybe_cls = cls.id
                           THEN Call("add_class", <<name, cls>>, "ok", FALSE)
                           ELSE Call("add_class", <<name, cls>>,
                                     "ClassRedefinitionAttempt", None)
                /\ UNCHANGED mappers
           ELSE /\ mappers' =
                      [mappers EXCEPT
                          ![name].MappedClasses = DictSet(@, cls.fcn, cls.id),
                          ![name].DecoratedMappedClasses = DictSet(@, cls.id, cls.id),
                          ![name].notified = IF cls.hook THEN @ \cup {cls.id} ELSE @,
                          ![name].RDFTypeTable = DictSet(@, cls.rdf_type, cls.id)]
                /\ last' = Call("add_class", <<name, cls>>, "ok", TRUE)
        /\ UNCHANGED <<aggVars, csVars, rcs, inst>>

\* the mappers: m imports the others, in one of these orders
MapperNames == {"m", "p1", "p2"}

(***************************************************************************)
(* Specification of a mapper and the mappers it imports                    *)
(***************************************************************************)
MInit ==
    /\ AggInit
    /\ NoContextStore
    /\ NoRDFContextStore
    /\ NoInstaller
    /\ \E imported \in { <<>>, <<"p1">>, <<"p1", "p2">>, <<"p2", "p1">> } :
          /\ mappers = [name \in MapperNames |->
                           NewMapper(IF name = "m" THEN imported ELSE <<>>)]
          /\ last = Call("__init__", imported, "ok", None)

MNext == \E name \in MapperNames, cls \in Classes : AddClass(name, cls)

MSpec == MInit /\ [][MNext]_vars

(***************************************************************************)
(* Properties of Mapper                                                    *)
(***************************************************************************)
\* the fully-qualified names of the classes
ClassNames == {cls.fcn : cls \in Classes}

\* C30 (as claimed): no add_class on a mapper or on a mapper it imports
\* changes the class a mapper finds for a name it already finds a class
\* for; adding the class the name maps to returns False, adding another
\* class under that name raises ClassRedefinitionAttempt, both leaving
\* the three tables as they were; a first add returns True and enters the
\* class in the three tables
C30_NameNeverRebound ==
    [][/\ \A name \in MapperNames, cname \in ClassNames :
             LookupClass(mappers, name, cname) # None
             => LookupClass(mappers', name, cname)
                   = LookupClass(mappers, name, cname)
       /\ last'.op = "add_class"
          => LET name == last'.arg[1]
                 cls == last'.arg[2]
                 known == LookupClass(mappers, name, cls.fcn)
             IN  /\ known = cls.id
                    => last'.outcome = "ok" /\ last'.result = FALSE
                       /\ mappers' = mappers
                 /\ (known # None /\ known # cls.id)
                    => last'.outcome = "ClassRedefinitionAttempt"
                       /\ mappers' = mappers
                 /\ known = None
                    => /\ last'.outcome = "ok" /\ last'.result = TRUE
                       /\ DictGet(mappers'[name].MappedClasses, cls.fcn) = cls.id
                       /\ DictGet(mappers'[name].DecoratedMappedClasses, cls.id)
                             = cls.id
                       /\ DictGet(mappers'[name].RDFTypeTable, cls.rdf_type)
                             = cls.id]_vars

====
